---- MODULE Spec2Model ----
(***************************************************************************)
(* pw-splitter: a model of the graph inspection, route planning, split     *)
(* state store and lifecycle (setup / teardown / recovery) code.           *)
(*                                                                         *)
(* Strings are modelled as sequences of tokens, so that formatting         *)
(* (format!("{}_{}", ..)), sanitising (safe_name) and substring tests      *)
(* (contains) are computed and not assumed.                                *)
(***************************************************************************)
EXTENDS Integers, Sequences, FiniteSets, TLC

VARIABLES
    nodes,      \* the application / device nodes of the server, in dump order
    relays,     \* every pw-loopback process spawned so far; its pid is its index
    links,      \* the server's links: pairs <<output port id, input port id>>
    store,      \* /tmp/pw-splitter: file name (split name) -> file content
    app,        \* per front-end process: the fields of struct App
    pc,         \* per front-end process: its position inside setup_split
    loc,        \* per front-end process: the locals of setup_split
    ev,         \* the operation the last step completed: its arguments, its result
                \* and the external commands it issued
    origin,     \* per split <<name, created_at>>: the source's links before its setup
    faults,     \* number of environment events so far
    clock,      \* SystemTime::now() in seconds
    runs,       \* per front-end: the number of its setup_split calls
    torn,       \* the splits whose record a teardown has deleted: <<name, created_at>>
    uq,         \* a generate_unique_name call taken on its own: arguments and result
    halves,     \* whether the server lists a relay's capture node before its playback node
    reaps,      \* whether SIGCHLD is ignored in the front-ends: the kernel reaps their children
    state_dir   \* whether the directory /tmp/pw-splitter exists

vars == <<nodes, relays, links, store, app, pc, loc, ev, origin, faults, clock, runs, torn, uq, halves, reaps, state_dir>>

\* ---------------------------------------------------------------- bounds
MaxSpawn == 4       \* pw-loopback processes spawned in one behaviour
MaxFault == 2       \* environment events and failed system calls in one behaviour
MaxSuffix == 3      \* largest numeric suffix tried by generate_unique_name
MaxSetup == 1       \* setup_split calls of one front-end

\* ---------------------------------------------------------------- sequences
RECURSIVE SeqToSet(_)
SeqToSet(s) == IF s = <<>> THEN {} ELSE {Head(s)} \cup SeqToSet(Tail(s))

RECURSIVE Flatten(_)
Flatten(ss) == IF ss = <<>> THEN <<>> ELSE Head(ss) \o Flatten(Tail(ss))

\* str::contains on token strings
Contains(s, sub) ==
    \E i \in 1..(Len(s) - Len(sub) + 1) : SubSeq(s, i, i + Len(sub) - 1) = sub

\* u32::to_string and the {} of format! on a number
Digit(d) == <<"0", "1", "2", "3", "4", "5", "6", "7", "8", "9">>[d + 1]

RECURSIVE Dec(_)
Dec(n) == IF n < 10 THEN <<Digit(n)>> ELSE Dec(n \div 10) \o <<Digit(n % 10)>>

\* every arrangement of a finite set as a sequence (the iteration order of a
\* HashMap or of fs::read_dir)
Orders(S) ==
    {f \in [1..Cardinality(S) -> S] : \A i, j \in 1..Cardinality(S) : f[i] = f[j] => i = j}

\* Option<T>: None is <<>>, Some(x) is <<x>>
None == <<>>
Some(x) == <<x>>

\* ---------------------------------------------------------------- nodes and ports
\* A node is a record of its id and its properties. A property the node does
\* not have (Option::None) is the empty string <<>>: no node of the model has
\* a property that is there and empty.
FL == "FL"
FR == "FR"

SourceNode ==
    [id |-> 1, name |-> <<"App">>, desc |-> <<>>, app |-> <<"My", " ", "App">>,
     media |-> <<"Playback">>, class |-> "Stream/Output/Audio",
     dir |-> "output", pfx |-> "output", chans |-> <<FL, FR>>]

SinkNode ==
    [id |-> 2, name |-> <<"Speakers">>, desc |-> <<"Speakers">>, app |-> <<>>,
     media |-> <<>>, class |-> "Audio/Sink",
     dir |-> "input", pfx |-> "playback", chans |-> <<FL, FR>>]

RecorderNode ==
    [id |-> 3, name |-> <<"OBS">>, desc |-> <<>>, app |-> <<"OBS">>,
     media |-> <<"Capture">>, class |-> "Stream/Input/Audio",
     dir |-> "input", pfx |-> "input", chans |-> <<FL, FR>>]

\* a second playing application, linked to nothing
Source2Node == [SourceNode EXCEPT !.id = 5, !.name = <<"Game">>, !.app = <<"Game">>]

\* a second instance of the recording application: same node.name, another id
Recorder2Node == [RecorderNode EXCEPT !.id = 4, !.media = <<"Capture", " ", "2">>]

\* the two nodes of a running pw-loopback process (spawn_loopback_no_target):
\* both halves carry node.name = loopback_name
CaptureId(pid) == 10 + 2 * pid
PlaybackId(pid) == 10 + 2 * pid + 1

CaptureNode(pid, r) ==
    [id |-> CaptureId(pid), name |-> r.name, desc |-> r.desc \o <<" ", "input">>,
     app |-> <<>>, media |-> <<>>, class |-> "Stream/Input/Audio/Internal",
     dir |-> "input", pfx |-> "input", chans |-> <<FL, FR>>]

PlaybackNode(pid, r) ==
    [id |-> PlaybackId(pid), name |-> r.name, desc |-> r.desc \o <<" ", "output">>,
     app |-> <<>>, media |-> <<>>, class |-> "Stream/Output/Audio/Internal",
     dir |-> "output", pfx |-> "output", chans |-> <<FL, FR>>]

RelayNodes(rs, pid) ==
    LET r == rs[pid] IN
    IF r.state # "run" THEN <<>>
    ELSE IF r.capFirst THEN <<CaptureNode(pid, r), PlaybackNode(pid, r)>>
    ELSE <<PlaybackNode(pid, r), CaptureNode(pid, r)>>

\* the nodes of the server in dump order, given the device / application nodes
\* and the relay processes
ObjectsOf(ns, rs) == ns \o Flatten([pid \in 1..Len(rs) |-> RelayNodes(rs, pid)])

\* get_pw_objects: the nodes of one pw-dump of the current graph
Objects == ObjectsOf(nodes, relays)

PortsOfNode(n) ==
    [i \in 1..Len(n.chans) |->
        [port_id |-> n.id * 10 + i, node_id |-> n.id,
         port_name |-> <<n.pfx, "_", n.chans[i]>>,
         channel |-> n.chans[i], direction |-> n.dir]]

\* extract_ports
extract_ports(objects) == Flatten([i \in 1..Len(objects) |-> PortsOfNode(objects[i])])

NodeOfPort(port_id) == port_id \div 10

\* the server drops the links of a node that leaves the graph
PruneLinks(L, objects) ==
    LET live == {objects[i].id : i \in 1..Len(objects)}
    IN  {l \in L : NodeOfPort(l[1]) \in live /\ NodeOfPort(l[2]) \in live}

\* extract_audio_sinks
extract_audio_sinks(objects) == SelectSeq(objects, LAMBDA n : n.class = "Audio/Sink")

\* find_node_by_name: the first node of the dump with this node.name
find_node_by_name(objects, name) ==
    LET hit == SelectSeq(objects, LAMBDA n : n.name # <<>> /\ n.name = name)
    IN  IF hit = <<>> THEN None ELSE Some(hit[1].id)

\* get_node_name: props.node_name of the first node with this id
get_node_name(objects, node_id) ==
    LET hit == SelectSeq(objects, LAMBDA n : n.id = node_id)
    IN  IF hit = <<>> \/ hit[1].name = <<>> THEN None ELSE Some(hit[1].name)

\* get_port_link_name: format!("{}:{}", node_name, port_name)
get_port_link_name(node_name, port_name) == node_name \o <<":">> \o port_name

\* ---------------------------------------------------------------- pw-link
\* The ports a pw-link argument names in the current graph, in registry order:
\* a port is named by "<node.name>:<port.name>" or by its id. Several nodes may
\* carry one name.
ResolvePort(G, arg, dir) ==
    SelectSeq(extract_ports(G), LAMBDA p :
        /\ p.direction = dir
        /\ \/ arg = Dec(p.port_id)
           \/ \E i \in 1..Len(G) :
                /\ G[i].id = p.node_id
                /\ G[i].name # <<>>
                /\ arg = get_port_link_name(G[i].name, p.port_name))

\* pw-link OUT IN on graph G with link set L: the outcome (exit status, stderr,
\* links afterwards). pw-link takes the first port of the registry that matches
\* an argument.
PwLink(G, L, out, in) ==
    LET os == ResolvePort(G, out, "output")
        is == ResolvePort(G, in, "input")
    IN  IF os = <<>> \/ is = <<>>
        THEN {[status |-> 1, links |-> L,
               stderr |-> <<"failed to link ports: ", "No such file", " or directory">>]}
        ELSE IF <<os[1].port_id, is[1].port_id>> \in L
        THEN {[status |-> 1, links |-> L,
               stderr |-> <<"failed to link ports: ", "File exists">>]}
        ELSE {[status |-> 0, links |-> L \cup {<<os[1].port_id, is[1].port_id>>},
               stderr |-> <<>>]}

\* pw-link -d OUT IN: removes the links between the named ports
PwUnlink(G, L, out, in) ==
    LET os == ResolvePort(G, out, "output")
        is == ResolvePort(G, in, "input")
        hit == IF os = <<>> \/ is = <<>> THEN {}
               ELSE L \cap {<<os[1].port_id, is[1].port_id>>}
    IN  IF hit = {}
        THEN {[status |-> 1, links |-> L,
               stderr |-> <<"failed to unlink ports: ", "No such file", " or directory">>]}
        ELSE {[status |-> 0, links |-> L \ hit, stderr |-> <<>>]}

\* pw-link that does not get to the request: it cannot be started (status -1,
\* Command::output returns Err), it cannot reach the server, or it ends
\* unsuccessfully without a message
PwLinkFails(L) ==
    {[status |-> -1, links |-> L, stderr |-> <<>>],
     [status |-> 1, links |-> L, stderr |-> <<"failed to connect: ", "Host is down">>],
     [status |-> 1, links |-> L, stderr |-> <<>>]}

\* a create_link without the exemption of "File exists"
create_link_result_strict(o) == [ok |-> o.status = 0, links |-> o.links]

\* create_link and create_link_by_id once pw-link has returned o: an
\* unsuccessful exit is an error unless stderr contains "File exists"
create_link_result(o) ==
    [ok |-> o.status # -1 /\ (o.status = 0 \/ Contains(o.stderr, <<"File exists">>)),
     links |-> o.links]

\* a destroy_link without the exemption of "No such file"
destroy_link_result_strict(o) == [ok |-> o.status = 0, links |-> o.links]

\* destroy_link once pw-link -d has returned o: an unsuccessful exit is an
\* error unless stderr contains "No such file" or is empty
destroy_link_result(o) ==
    [ok |-> /\ o.status # -1
            /\ \/ o.status = 0
               \/ ~(~Contains(o.stderr, <<"No such file">>) /\ o.stderr # <<>>),
     links |-> o.links]

\* create_link and create_link_by_id (the id is passed as its decimal string)
\* on a server that answers
create_link(G, L, output_port, input_port) ==
    {create_link_result(o) : o \in PwLink(G, L, output_port, input_port)}

\* destroy_link on a server that answers
destroy_link(G, L, output_port, input_port) ==
    {destroy_link_result(o) : o \in PwUnlink(G, L, output_port, input_port)}

\* ---------------------------------------------------------------- snapshot queries
\* find_source_connections: the links of the source grouped by input node; the
\* order of the result is the iteration order of a HashMap. node_names holds
\* node_name.unwrap_or_default() of every sink and recording destination, and
\* over that the node.name of every node that has one.
find_source_connections(source_node_id, objects, L) ==
    LET source_links == {l \in L : NodeOfPort(l[1]) = source_node_id}
        targets == {NodeOfPort(l[2]) : l \in source_links}
        unknown(id) == <<"Unknown(">> \o Dec(id) \o <<")">>
        name(id) == LET hit == SelectSeq(objects, LAMBDA n : n.id = id) IN
                    IF hit = <<>> THEN unknown(id)
                    ELSE IF hit[1].name # <<>> THEN hit[1].name
                    ELSE IF hit[1].class \in {"Audio/Sink", "Stream/Input/Audio"} THEN <<>>
                    ELSE unknown(id)
        conn(id) == [source_node_id |-> source_node_id, target_node_id |-> id,
                     target_node_name |-> name(id),
                     links |-> {l \in source_links : NodeOfPort(l[2]) = id}]
    IN  {[i \in 1..Cardinality(targets) |-> conn(order[i])] : order \in Orders(targets)}

\* a filter that takes the ports of every channel
stereo_ports_any(ports, node_id, dir) ==
    SelectSeq(ports, LAMBDA p : p.node_id = node_id /\ p.direction = dir)

\* the filter used for every wiring step: the FL / FR ports of one node in one
\* direction, in dump order
stereo_ports(ports, node_id, dir) ==
    SelectSeq(ports, LAMBDA p : /\ p.node_id = node_id
                                /\ p.direction = dir
                                /\ (p.channel = FL \/ p.channel = FR))

\* a pairing of every port with every port
channel_pairs_cross(xs, ys) ==
    Flatten([i \in 1..Len(xs) |-> [j \in 1..Len(ys) |-> <<xs[i], ys[j]>>]])

\* a pairing that stops after the first matching pair
channel_pairs_first(xs, ys) ==
    LET all == Flatten([i \in 1..Len(xs) |->
                    LET m == SelectSeq(ys, LAMBDA b : b.channel = xs[i].channel)
                    IN  [j \in 1..Len(m) |-> <<xs[i], m[j]>>]])
    IN  IF all = <<>> THEN <<>> ELSE <<all[1]>>

\* for a in xs { for b in ys { if a.channel == b.channel { .. } } }
channel_pairs(xs, ys) ==
    Flatten([i \in 1..Len(xs) |->
        LET m == SelectSeq(ys, LAMBDA b : b.channel = xs[i].channel)
        IN  [j \in 1..Len(m) |-> <<xs[i], m[j]>>]])

\* find_loopback_capture_node
find_loopback_capture_node(objects, loopback_name) ==
    LET ports == extract_ports(objects)
        by_desc == SelectSeq(objects, LAMBDA n :
                      Contains(n.desc, loopback_name) /\ Contains(n.desc, <<"input">>))
        by_name == SelectSeq(objects, LAMBDA n :
                      /\ Contains(n.name, loopback_name)
                      /\ \E i \in 1..Len(ports) :
                            ports[i].node_id = n.id /\ ports[i].direction = "input")
    IN  IF by_desc # <<>> THEN Some(by_desc[1].id)
        ELSE IF by_name # <<>> THEN Some(by_name[1].id)
        ELSE None

\* a find_loopback_playback_node that looks at names and ports first
find_loopback_playback_node_by_port(objects, loopback_name) ==
    LET ports == extract_ports(objects)
        by_desc == SelectSeq(objects, LAMBDA n :
                      Contains(n.desc, loopback_name) /\ Contains(n.desc, <<"output">>))
        by_name == SelectSeq(objects, LAMBDA n :
                      /\ Contains(n.name, loopback_name)
                      /\ \E i \in 1..Len(ports) :
                            ports[i].node_id = n.id /\ ports[i].direction = "output")
    IN  IF by_name # <<>> THEN Some(by_name[1].id)
        ELSE IF by_desc # <<>> THEN Some(by_desc[1].id)
        ELSE None

\* find_loopback_playback_node
find_loopback_playback_node(objects, loopback_name) ==
    LET ports == extract_ports(objects)
        by_desc == SelectSeq(objects, LAMBDA n :
                      Contains(n.desc, loopback_name) /\ Contains(n.desc, <<"output">>))
        by_name == SelectSeq(objects, LAMBDA n :
                      /\ Contains(n.name, loopback_name)
                      /\ \E i \in 1..Len(ports) :
                            ports[i].node_id = n.id /\ ports[i].direction = "output")
    IN  IF by_desc # <<>> THEN Some(by_desc[1].id)
        ELSE IF by_name # <<>> THEN Some(by_name[1].id)
        ELSE None

\* ---------------------------------------------------------------- wiring
\* a loop of create_link(..)? over pairs <<output, input>>: stops at the first
\* error. Outcomes: ok, the links afterwards, the commands issued.
RECURSIVE LinkAll(_, _, _)
LinkAll(G, L, pairs) ==
    IF pairs = <<>> THEN {[ok |-> TRUE, links |-> L, cmds |-> <<>>]}
    ELSE LET cmd == <<"pw-link", pairs[1][1], pairs[1][2]>> IN
         UNION {IF o.ok
                THEN {[r EXCEPT !.cmds = <<cmd>> \o @] : r \in LinkAll(G, o.links, Tail(pairs))}
                ELSE {[ok |-> FALSE, links |-> o.links, cmds |-> <<cmd>>]}
                : o \in create_link(G, L, pairs[1][1], pairs[1][2])}

\* a failure that first takes away the links made to the relays so far
Failed_rollback(kind, L, cmds) ==
    {[err |-> kind, links |-> {k \in L : NodeOfPort(k[2]) < CaptureId(1)},
      cmds |-> cmds \o <<<<"pw-link -d">>>>]}

\* a wiring call that returns an error before its first pw-link
Failed(kind, L, cmds) == {[err |-> kind, links |-> L, cmds |-> cmds]}

Linked(G, L, pairs, cmds) ==
    {[err |-> IF r.ok THEN "" ELSE "LinkCreationFailed", links |-> r.links,
      cmds |-> cmds \o r.cmds] : r \in LinkAll(G, L, pairs)}

\* connect_source_to_loopback, on the graph G it finds when it runs
connect_source_to_loopback(G, L, source, loopback_name) ==
    LET objects == G
        ports == extract_ports(objects)
        dump == <<<<"pw-dump">>>>
        loopback_node_id == find_loopback_capture_node(objects, loopback_name)
    IN  IF loopback_node_id = None THEN Failed("NodeNotFound", L, dump) ELSE
        LET source_ports == stereo_ports(ports, source.node_id, "output")
            loopback_ports == stereo_ports(ports, loopback_node_id[1], "input")
            source_node_name == get_node_name(objects, source.node_id)
            loopback_node_name == get_node_name(objects, loopback_node_id[1])
            prs == channel_pairs(source_ports, loopback_ports)
        IN  IF source_ports = <<>> \/ loopback_ports = <<>>
            THEN Failed("LinkCreationFailed", L, dump)
            ELSE IF source_node_name = None \/ loopback_node_name = None
            THEN Failed("NodeNotFound", L, dump)
            ELSE Linked(G, L,
                    [k \in 1..Len(prs) |->
                        <<get_port_link_name(source_node_name[1], prs[k][1].port_name),
                          get_port_link_name(loopback_node_name[1], prs[k][2].port_name)>>],
                    dump)

\* a connect_loopback_to_recording_dest that names the destination port
\* "<node.name>:<port.name>" as the other wiring calls do
connect_loopback_to_recording_dest_by_name(G, L, loopback_playback_name, dest_node_id) ==
    LET objects == G
        ports == extract_ports(objects)
        dump == <<<<"pw-dump">>>>
        loopback_node_id == find_node_by_name(objects, loopback_playback_name)
        loopback_ports == IF loopback_node_id # None
                          THEN stereo_ports(ports, loopback_node_id[1], "output")
                          ELSE <<>>
        dest_ports == stereo_ports(ports, dest_node_id, "input")
        dest_node_name == get_node_name(objects, dest_node_id)
        prs == channel_pairs(loopback_ports, dest_ports)
    IN  IF loopback_ports = <<>> \/ dest_ports = <<>> \/ dest_node_name = None
        THEN Failed("LinkCreationFailed", L, dump)
        ELSE Linked(G, L,
                [k \in 1..Len(prs) |->
                    <<get_port_link_name(loopback_playback_name, prs[k][1].port_name),
                      get_port_link_name(dest_node_name[1], prs[k][2].port_name)>>],
                dump)

\* connect_loopback_to_recording_dest: the destination port is given by id
connect_loopback_to_recording_dest(G, L, loopback_playback_name, dest_node_id) ==
    LET objects == G
        ports == extract_ports(objects)
        dump == <<<<"pw-dump">>>>
        loopback_node_id == find_node_by_name(objects, loopback_playback_name)
        loopback_ports == IF loopback_node_id # None
                          THEN stereo_ports(ports, loopback_node_id[1], "output")
                          ELSE <<>>
        dest_ports == stereo_ports(ports, dest_node_id, "input")
        prs == channel_pairs(loopback_ports, dest_ports)
    IN  IF loopback_ports = <<>> \/ dest_ports = <<>>
        THEN Failed("LinkCreationFailed", L, dump)
        ELSE Linked(G, L,
                [k \in 1..Len(prs) |->
                    <<get_port_link_name(loopback_playback_name, prs[k][1].port_name),
                      Dec(prs[k][2].port_id)>>],
                dump)

\* connect_loopback_to_sink: the sink is looked up, and linked, by name
connect_loopback_to_sink(G, L, loopback_name, sink_name) ==
    LET objects == G
        ports == extract_ports(objects)
        dump == <<<<"pw-dump">>>>
        loopback_node_id == find_loopback_playback_node(objects, loopback_name)
        sink_node_id == find_node_by_name(objects, sink_name)
    IN  IF loopback_node_id = None \/ sink_node_id = None
        THEN Failed("NodeNotFound", L, dump) ELSE
        LET loopback_ports == stereo_ports(ports, loopback_node_id[1], "output")
            sink_ports == stereo_ports(ports, sink_node_id[1], "input")
            loopback_node_name == get_node_name(objects, loopback_node_id[1])
            prs == channel_pairs(loopback_ports, sink_ports)
        IN  IF loopback_ports = <<>> \/ sink_ports = <<>>
            THEN Failed("LinkCreationFailed", L, dump)
            ELSE IF loopback_node_name = None
            THEN Failed("NodeNotFound", L, dump)
            ELSE Linked(G, L,
                    [k \in 1..Len(prs) |->
                        <<get_port_link_name(loopback_node_name[1], prs[k][1].port_name),
                          get_port_link_name(sink_name, prs[k][2].port_name)>>],
                    dump)

\* the loop of disconnect_source_from_target: destroy_link on every pair, and
\* a SavedLink for every call that returned Ok
RECURSIVE UnlinkAll(_, _, _)
UnlinkAll(G, L, pairs) ==
    IF pairs = <<>> THEN {[links |-> L, saved |-> <<>>, cmds |-> <<>>]}
    ELSE LET cmd == <<"pw-link -d", pairs[1][1], pairs[1][2]>>
             link == [output_port |-> pairs[1][1], input_port |-> pairs[1][2]]
         IN  UNION {{[r EXCEPT !.cmds = <<cmd>> \o @,
                               !.saved = (IF o.ok THEN <<link>> ELSE <<>>) \o @]
                     : r \in UnlinkAll(G, o.links, Tail(pairs))}
                    : o \in destroy_link(G, L, pairs[1][1], pairs[1][2])}

\* disconnect_source_from_target, planning from the snapshot objects and
\* acting on the graph G; None is an empty saved list
disconnect_source_from_target(G, L, source, connection, objects) ==
    LET ports == extract_ports(objects)
        source_ports == stereo_ports(ports, source.node_id, "output")
        target_ports == stereo_ports(ports, connection.target_node_id, "input")
        source_node_name == get_node_name(objects, source.node_id)
        target_node_name == get_node_name(objects, connection.target_node_id)
        prs == channel_pairs(source_ports, target_ports)
    IN  IF source_node_name = None \/ target_node_name = None
        THEN {[links |-> L, saved |-> <<>>, cmds |-> <<>>]}
        ELSE UnlinkAll(G, L,
                [k \in 1..Len(prs) |->
                    <<get_port_link_name(source_node_name[1], prs[k][1].port_name),
                      get_port_link_name(target_node_name[1], prs[k][2].port_name)>>])

\* the for loop of setup_split step 3 over the original connections
RECURSIVE disconnect_all(_, _, _, _, _)
disconnect_all(G, L, source, connections, objects) ==
    IF connections = <<>> THEN {[links |-> L, saved |-> <<>>, cmds |-> <<>>]}
    ELSE UNION {{[r EXCEPT !.cmds = o.cmds \o @, !.saved = o.saved \o @]
                 : r \in disconnect_all(G, o.links, source, Tail(connections), objects)}
                : o \in disconnect_source_from_target(G, L, source, Head(connections), objects)}

\* a find_primary_output that falls back to the first sink when it is given no
\* connection
find_primary_output_default(connections, objects) ==
    LET sinks == extract_audio_sinks(objects)
        hit == SelectSeq(connections, LAMBDA c :
                   \E i \in 1..Len(sinks) : sinks[i].id = c.target_node_id)
    IN  IF connections = <<>> /\ sinks = <<>>
        THEN [err |-> "NoActiveConnection", conn |-> None, cmds |-> <<>>]
        ELSE [err |-> "", cmds |-> <<<<"pw-dump">>>>,
              conn |-> IF hit # <<>> THEN Some(hit[1])
                       ELSE IF connections # <<>> THEN Some(connections[1])
                       ELSE Some([source_node_id |-> 0, target_node_id |-> sinks[1].id,
                                  target_node_name |-> sinks[1].name, links |-> {}])]

\* find_primary_output
find_primary_output(connections, objects) ==
    IF connections = <<>> THEN [err |-> "NoActiveConnection", conn |-> None, cmds |-> <<>>]
    ELSE LET sinks == extract_audio_sinks(objects)
             hit == SelectSeq(connections, LAMBDA c :
                        \E i \in 1..Len(sinks) : sinks[i].id = c.target_node_id)
         IN  [err |-> "", cmds |-> <<<<"pw-dump">>>>,
              conn |-> IF hit # <<>> THEN Some(hit[1]) ELSE Some(connections[1])]

\* ---------------------------------------------------------------- state store
\* state_file_path without the directory: format!("{}.json", name)
state_file_path(name) == name \o <<".json">>

SplitFields ==
    <<"name", "source_node_id", "source_node_name", "source_application_name",
      "recording_loopback_name", "local_loopback_name", "recording_dest_node_id",
      "recording_dest_media_name", "recording_dest_application_name",
      "original_output_node_name", "original_links", "loopback_to_recording_pid",
      "loopback_to_local_pid", "created_at">>

\* the fields that are numbers (u32, u64); original_links is an array of
\* SavedLink objects, every other field a string
NumberFields ==
    {"source_node_id", "recording_dest_node_id", "loopback_to_recording_pid",
     "loopback_to_local_pid", "created_at"}

Quote == "\""
Backslash == "\\"

\* serde_json writes a string between quotes, with '"' and '\' escaped
json_string(s) ==
    <<Quote>>
    \o Flatten([i \in 1..Len(s) |->
            IF s[i] \in {Quote, Backslash} THEN <<Backslash, s[i]>> ELSE <<s[i]>>])
    \o <<Quote>>

\* the characters between the quotes, unescaped; None when a quote or a
\* backslash stands alone
RECURSIVE unescape(_)
unescape(t) ==
    IF t = <<>> THEN Some(<<>>)
    ELSE IF t[1] = Backslash
    THEN IF Len(t) < 2 \/ t[2] \notin {Quote, Backslash} THEN None
         ELSE LET rest == unescape(SubSeq(t, 3, Len(t)))
              IN  IF rest = None THEN None ELSE Some(<<t[2]>> \o rest[1])
    ELSE IF t[1] = Quote THEN None
    ELSE LET rest == unescape(Tail(t))
         IN  IF rest = None THEN None ELSE Some(<<t[1]>> \o rest[1])

\* serde_json reads a String
parse_string(j) ==
    IF Len(j) >= 2 /\ j[1] = Quote /\ j[Len(j)] = Quote
    THEN unescape(SubSeq(j, 2, Len(j) - 1))
    ELSE None

\* serde_json writes an unsigned number in decimal
json_number(n) == Dec(n)

IsDigit(t) == \E d \in 0..9 : Digit(d) = t

RECURSIVE DecValue(_)
DecValue(j) ==
    IF j = <<>> THEN 0
    ELSE DecValue(SubSeq(j, 1, Len(j) - 1)) * 10
         + (CHOOSE d \in 0..9 : Digit(d) = j[Len(j)])

\* serde_json reads an unsigned number: digits, no leading zero
parse_number(j) ==
    IF /\ j # <<>>
       /\ \A i \in 1..Len(j) : IsDigit(j[i])
       /\ (Len(j) = 1 \/ j[1] # "0")
    THEN Some(DecValue(j))
    ELSE None

\* Vec<SavedLink>: an array of objects, in the order of the vector
json_links(ls) ==
    [i \in 1..Len(ls) |-> <<json_string(ls[i].output_port), json_string(ls[i].input_port)>>]

parse_links(j) ==
    IF \A i \in 1..Len(j) :
            /\ Len(j[i]) = 2
            /\ parse_string(j[i][1]) # None
            /\ parse_string(j[i][2]) # None
    THEN Some([i \in 1..Len(j) |->
                [output_port |-> parse_string(j[i][1])[1],
                 input_port |-> parse_string(j[i][2])[1]]])
    ELSE None

json_field(f, v) ==
    IF f \in NumberFields THEN json_number(v)
    ELSE IF f = "original_links" THEN json_links(v)
    ELSE json_string(v)

parse_field(f, j) ==
    IF f \in NumberFields THEN parse_number(j)
    ELSE IF f = "original_links" THEN parse_links(j)
    ELSE parse_string(j)

\* serde_json::to_string_pretty: the fields in declaration order, each with its key
to_json(state) ==
    [i \in 1..Len(SplitFields) |->
        <<SplitFields[i], json_field(SplitFields[i], state[SplitFields[i]])>>]

\* serde_json::from_str::<SplitState>: None unless every field is there and
\* has a value of its type
from_json(json) ==
    IF /\ Len(json) = Len(SplitFields)
       /\ \A i \in 1..Len(json) :
            /\ Len(json[i]) = 2
            /\ json[i][1] = SplitFields[i]
            /\ parse_field(SplitFields[i], json[i][2]) # None
    THEN Some([f \in SeqToSet(SplitFields) |->
                 parse_field(f, json[CHOOSE i \in 1..Len(json) : json[i][1] = f][2])[1]])
    ELSE None

\* SplitState::exists
exists(files, name) == state_file_path(name) \in DOMAIN files

\* a save that leaves a file that is already there as it is
save_new(files, state) ==
    [p \in DOMAIN files \cup {state_file_path(state.name)} |->
        IF p \in DOMAIN files THEN files[p] ELSE to_json(state)]

\* fs::write of SplitState::save: creates or replaces the file
save(files, state) ==
    [p \in DOMAIN files \cup {state_file_path(state.name)} |->
        IF p = state_file_path(state.name) THEN to_json(state) ELSE files[p]]

\* the content of a file that is not text (fs::read_to_string fails on it)
NotUtf8 == <<<<"0xFF">>>>

\* fs::read_to_string: None when the file is missing or is not UTF-8 text
read_to_string(files, path) ==
    IF path \in DOMAIN files /\ files[path] # NotUtf8 THEN Some(files[path]) ELSE None

\* SplitState::load: the error it returns, "" when it returns a record
load_err(files, name) ==
    IF read_to_string(files, state_file_path(name)) = None THEN "StateFileError"
    ELSE IF from_json(read_to_string(files, state_file_path(name))[1]) = None THEN "JsonError"
    ELSE ""

\* SplitState::load
load(files, name) ==
    IF read_to_string(files, state_file_path(name)) = None THEN None
    ELSE from_json(read_to_string(files, state_file_path(name))[1])

\* fs::remove_file of SplitState::delete
delete(files, state) ==
    [p \in DOMAIN files \ {state_file_path(state.name)} |-> files[p]]

\* Path::extension of a file name: the part after its last dot
extension(path) ==
    IF Len(path) >= 2 /\ path[Len(path)] = ".json" THEN Some("json")
    ELSE IF Len(path) >= 2 /\ path[Len(path)] = ".txt" THEN Some("txt")
    ELSE None

\* the body of the for loop of list_all on one entry: the record it pushes
list_entry(files, path) ==
    IF /\ extension(path) = Some("json")
       /\ read_to_string(files, path) # None
       /\ from_json(read_to_string(files, path)[1]) # None
    THEN <<from_json(read_to_string(files, path)[1])[1]>>
    ELSE <<>>

\* a list_all that gives up at an entry it cannot read or parse
list_all_strict(files, dir_exists, io_ok) ==
    IF ~dir_exists THEN {[err |-> "", states |-> <<>>]}
    ELSE IF ~io_ok THEN {[err |-> "StateFileError", states |-> <<>>]}
    ELSE {IF \E i \in 1..Len(order) : list_entry(files, order[i]) = <<>>
          THEN [err |-> "JsonError", states |-> <<>>]
          ELSE [err |-> "", states |-> Flatten([i \in 1..Len(order) |->
                                                    list_entry(files, order[i])])]
          : order \in Orders(DOMAIN files)}

\* SplitState::list_all: fs::read_dir yields the entries in any order; io_ok
\* says whether reading the directory succeeds
list_all(files, dir_exists, io_ok) ==
    IF ~dir_exists THEN {[err |-> "", states |-> <<>>]}
    ELSE IF ~io_ok THEN {[err |-> "StateFileError", states |-> <<>>]}
    ELSE {[err |-> "", states |-> Flatten([i \in 1..Len(order) |->
                                              list_entry(files, order[i])])]
          : order \in Orders(DOMAIN files)}

\* SplitState::generate_unique_name: the while loop from (name, counter)
RECURSIVE unique_name_loop(_, _, _, _)
unique_name_loop(files, base_name, name, counter) ==
    IF exists(files, name)
    THEN unique_name_loop(files, base_name, base_name \o <<"_">> \o Dec(counter), counter + 1)
    ELSE name

\* a loop that starts counting at 2
generate_unique_name_from_2(files, base_name) ==
    unique_name_loop(files, base_name, base_name, 2)
generate_unique_name(files, base_name) == unique_name_loop(files, base_name, base_name, 1)

\* ---------------------------------------------------------------- relay processes
\* spawn_loopback_no_target: a new pw-loopback child. os.cap_first is the order
\* in which the server lists its two nodes; os.parent is the front-end that has
\* to wait() for it (0: nobody, the kernel reaps it). The Child handle is dropped
\* or forgotten by every caller and never waited for.
spawn_loopback_no_target(rs, loopback_name, loopback_desc, os) ==
    Append(rs, [name |-> loopback_name, desc |-> loopback_desc, state |-> "run",
                capFirst |-> os.cap_first, parent |-> os.parent])

\* a process that ends: its nodes leave the graph; it stays in /proc as a zombie
\* for as long as a parent that does not wait for it lives
Exited(rs, pid) ==
    [rs EXCEPT ![pid] = [name |-> <<>>, desc |-> <<>>, capFirst |-> FALSE,
                         state |-> IF rs[pid].parent = 0 THEN "gone" ELSE "zombie",
                         parent |-> rs[pid].parent]]

\* the front-end process c ends: its zombies are reaped, its live children are
\* handed to init
ParentExited(rs, c) ==
    [pid \in 1..Len(rs) |->
        IF rs[pid].parent # c THEN rs[pid]
        ELSE [rs[pid] EXCEPT !.parent = 0,
                             !.state = IF @ = "zombie" THEN "gone" ELSE @]]

\* a kill_process that signals nothing
kill_process_none(rs, pid) == rs

\* kill_process: kill -TERM pid, result ignored. The signal goes to whatever
\* process has the pid: a relay that runs, or an unrelated process ("other")
\* that got the pid after the relay was gone
kill_process(rs, pid) ==
    IF pid \in 1..Len(rs) /\ rs[pid].state \in {"run", "other"} THEN Exited(rs, pid) ELSE rs

\* is_process_running: /proc/<pid> exists, for a zombie and for an unrelated
\* process that has the pid as well
is_process_running(rs, pid) ==
    pid \in 1..Len(rs) /\ rs[pid].state \in {"run", "zombie", "other"}

\* check_loopbacks_running
check_loopbacks_running(rs, state) ==
    <<is_process_running(rs, state.loopback_to_recording_pid),
      is_process_running(rs, state.loopback_to_local_pid)>>

\* ---------------------------------------------------------------- teardown
\* the loop of teardown_split step 2: let _ = create_link(..)
RECURSIVE RestoreAll(_, _, _)
RestoreAll(G, L, original_links) ==
    IF original_links = <<>> THEN {[links |-> L, cmds |-> <<>>, failed |-> 0]}
    ELSE LET h == Head(original_links)
             cmd == <<"pw-link", h.output_port, h.input_port>>
         IN  UNION {{[r EXCEPT !.cmds = <<cmd>> \o @,
                               !.failed = @ + (IF o.ok THEN 0 ELSE 1)]
                     : r \in RestoreAll(G, o.links, Tail(original_links))}
                    : o \in create_link(G, L, h.output_port, h.input_port)}

\* a teardown_split that gives up at the first link it cannot recreate
teardown_split_strict(ns, rs, L, files, state, io_ok) ==
    LET rs1 == kill_process(rs, state.loopback_to_recording_pid)
        rs2 == kill_process(rs1, state.loopback_to_local_pid)
        G == ObjectsOf(ns, rs2)
        had == exists(files, state.name)
    IN  {[ok |-> r.failed = 0 /\ (~had \/ io_ok),
          relays |-> rs2,
          links |-> r.links,
          files |-> IF r.failed = 0 /\ had /\ io_ok THEN delete(files, state) ELSE files,
          cmds |-> <<<<"kill", state.loopback_to_recording_pid>>,
                     <<"kill", state.loopback_to_local_pid>>>>
                   \o r.cmds
                   \o (IF r.failed = 0 THEN <<<<"delete", state_file_path(state.name)>>>>
                       ELSE <<>>),
          kill_failed |-> Cardinality({q \in {state.loopback_to_recording_pid,
                                              state.loopback_to_local_pid} :
                                          ~(q \in 1..Len(rs) /\ rs[q].state # "gone")}),
          link_failed |-> r.failed,
          delete_failed |-> r.failed = 0 /\ had /\ ~io_ok]
         : r \in RestoreAll(G, PruneLinks(L, G), state.original_links)}

\* a teardown_split that looks at the graph first and requests only the links
\* whose ports it finds there
teardown_split_planned(ns, rs, L, files, state, io_ok) ==
    LET rs1 == kill_process(rs, state.loopback_to_recording_pid)
        rs2 == kill_process(rs1, state.loopback_to_local_pid)
        G == ObjectsOf(ns, rs2)
        had == exists(files, state.name)
        found == SelectSeq(state.original_links, LAMBDA k :
                    /\ ResolvePort(G, k.output_port, "output") # <<>>
                    /\ ResolvePort(G, k.input_port, "input") # <<>>)
    IN  {[ok |-> ~had \/ io_ok,
          relays |-> rs2,
          links |-> r.links,
          files |-> IF had /\ io_ok THEN delete(files, state) ELSE files,
          cmds |-> <<<<"kill", state.loopback_to_recording_pid>>,
                     <<"kill", state.loopback_to_local_pid>>>>
                   \o r.cmds \o <<<<"delete", state_file_path(state.name)>>>>,
          kill_failed |-> Cardinality({q \in {state.loopback_to_recording_pid,
                                              state.loopback_to_local_pid} :
                                          ~(q \in 1..Len(rs) /\ rs[q].state # "gone")}),
          link_failed |-> r.failed,
          delete_failed |-> had /\ ~io_ok]
         : r \in RestoreAll(G, PruneLinks(L, G), found)}

\* a teardown_split that recreates the links while the relays still run, and
\* signals them afterwards
teardown_split_links_first(ns, rs, L, files, state, io_ok) ==
    LET rs1 == kill_process(rs, state.loopback_to_recording_pid)
        rs2 == kill_process(rs1, state.loopback_to_local_pid)
        G == ObjectsOf(ns, rs)
        had == exists(files, state.name)
    IN  {[ok |-> ~had \/ io_ok,
          relays |-> rs2,
          links |-> PruneLinks(r.links, ObjectsOf(ns, rs2)),
          files |-> IF had /\ io_ok THEN delete(files, state) ELSE files,
          cmds |-> r.cmds
                   \o <<<<"kill", state.loopback_to_recording_pid>>,
                        <<"kill", state.loopback_to_local_pid>>>>
                   \o <<<<"delete", state_file_path(state.name)>>>>,
          kill_failed |-> Cardinality({q \in {state.loopback_to_recording_pid,
                                              state.loopback_to_local_pid} :
                                          ~(q \in 1..Len(rs) /\ rs[q].state # "gone")}),
          link_failed |-> r.failed,
          delete_failed |-> had /\ ~io_ok]
         : r \in RestoreAll(G, PruneLinks(L, G), state.original_links)}

\* teardown_split on the server (ns, rs, L) and the store: io_ok says whether
\* fs::remove_file succeeds
teardown_split(ns, rs, L, files, state, io_ok) ==
    LET rs1 == kill_process(rs, state.loopback_to_recording_pid)
        rs2 == kill_process(rs1, state.loopback_to_local_pid)
        G == ObjectsOf(ns, rs2)
        had == exists(files, state.name)
    IN  {[ok |-> ~had \/ io_ok,
          relays |-> rs2,
          links |-> r.links,
          files |-> IF had /\ io_ok THEN delete(files, state) ELSE files,
          cmds |-> <<<<"kill", state.loopback_to_recording_pid>>,
                     <<"kill", state.loopback_to_local_pid>>>>
                   \o r.cmds \o <<<<"delete", state_file_path(state.name)>>>>,
          kill_failed |-> Cardinality({q \in {state.loopback_to_recording_pid,
                                              state.loopback_to_local_pid} :
                                          ~(q \in 1..Len(rs) /\ rs[q].state # "gone")}),
          link_failed |-> r.failed,
          delete_failed |-> had /\ ~io_ok]
         : r \in RestoreAll(G, PruneLinks(L, G), state.original_links)}

\* a stop_split that removes the file of a record it cannot load
stop_split_purge(ns, rs, L, files, name, io_ok) ==
    IF load_err(files, name) # ""
    THEN {[err |-> load_err(files, name), state |-> None,
           files |-> [p \in DOMAIN files \ {state_file_path(name)} |-> files[p]], t |-> None]}
    ELSE {[err |-> IF t.ok THEN "" ELSE "StateFileError", state |-> load(files, name),
           files |-> t.files, t |-> Some(t)]
          : t \in teardown_split(ns, rs, L, files, load(files, name)[1], io_ok)}

\* stop_split: SplitState::load(name)?, then teardown_split
stop_split(ns, rs, L, files, name, io_ok) ==
    IF load_err(files, name) # ""
    THEN {[err |-> load_err(files, name), state |-> None, files |-> files, t |-> None]}
    ELSE {[err |-> IF t.ok THEN "" ELSE "StateFileError", state |-> load(files, name),
           files |-> t.files, t |-> Some(t)]
          : t \in teardown_split(ns, rs, L, files, load(files, name)[1], io_ok)}

\* the for loop of stop_all_splits: teardown_split on every record in turn,
\* the name pushed when it returned Ok; del_ok says, record by record, whether
\* fs::remove_file succeeds
RECURSIVE teardown_each(_, _, _, _, _, _)
teardown_each(ns, rs, L, files, states, del_ok) ==
    IF states = <<>>
    THEN {[stopped |-> <<>>, relays |-> rs, links |-> L, files |-> files,
           calls |-> <<>>, delete_failed |-> 0]}
    ELSE UNION {{[r EXCEPT !.stopped = (IF t.ok THEN <<Head(states).name>> ELSE <<>>) \o @,
                           !.calls = <<[state |-> Head(states), ok |-> t.ok, cmds |-> t.cmds]>> \o @,
                           !.delete_failed = @ + (IF t.delete_failed THEN 1 ELSE 0)]
                 : r \in teardown_each(ns, t.relays, t.links, t.files, Tail(states),
                                       Tail(del_ok))}
                : t \in teardown_split(ns, rs, L, files, Head(states), Head(del_ok))}

\* a stop_all_splits that stops at the first teardown that fails
stop_all_splits_first(ns, rs, L, files, dir_exists, list_ok, del_ok) ==
    UNION {IF l.err # ""
           THEN {[err |-> l.err, listed |-> <<>>, stopped |-> <<>>, relays |-> rs,
                  links |-> L, files |-> files, calls |-> <<>>, delete_failed |-> 0]}
           ELSE LET n == IF \E i \in 1..Len(l.states) : ~del_ok[i]
                         THEN CHOOSE i \in 1..Len(l.states) :
                                /\ ~del_ok[i]
                                /\ \A j \in 1..(i - 1) : del_ok[j]
                         ELSE Len(l.states)
                IN  {[err |-> "", listed |-> l.states, stopped |-> r.stopped,
                      relays |-> r.relays, links |-> r.links, files |-> r.files,
                      calls |-> r.calls, delete_failed |-> r.delete_failed]
                     : r \in teardown_each(ns, rs, L, files, SubSeq(l.states, 1, n), del_ok)}
           : l \in list_all(files, dir_exists, list_ok)}

\* stop_all_splits: list_all()?, then the loop
stop_all_splits(ns, rs, L, files, dir_exists, list_ok, del_ok) ==
    UNION {IF l.err # ""
           THEN {[err |-> l.err, listed |-> <<>>, stopped |-> <<>>, relays |-> rs,
                  links |-> L, files |-> files, calls |-> <<>>, delete_failed |-> 0]}
           ELSE {[err |-> "", listed |-> l.states, stopped |-> r.stopped,
                  relays |-> r.relays, links |-> r.links, files |-> r.files,
                  calls |-> r.calls, delete_failed |-> r.delete_failed]
                 : r \in teardown_each(ns, rs, L, files, l.states, del_ok)}
           : l \in list_all(files, dir_exists, list_ok)}

\* ---------------------------------------------------------------- recovery
\* a restart_loopback_to_recording that writes the new pid to the file only,
\* not to the record of its caller
restart_loopback_to_recording_stale(ns, rs, L, files, state, spawn_ok, os, io_ok) ==
    LET loopback_desc == state.source_application_name \o <<" -> ">>
                         \o state.recording_dest_application_name
        spawn == <<<<"pw-loopback", state.recording_loopback_name>>>>
    IN  IF ~spawn_ok
        THEN {[err |-> "LoopbackSpawnFailed", state |-> state, relays |-> rs,
               links |-> L, files |-> files, cmds |-> spawn]}
        ELSE
        LET rs1 == spawn_loopback_no_target(rs, state.recording_loopback_name,
                                            loopback_desc, os)
            new_pid == Len(rs1)
            state1 == [state EXCEPT !.loopback_to_recording_pid = new_pid]
            write == <<<<"write", state_file_path(state.name)>>>>
        IN  {IF c.err # ""
             THEN [err |-> c.err, state |-> state, relays |-> rs1, links |-> c.links,
                   files |-> files, cmds |-> spawn \o c.cmds]
             ELSE IF ~io_ok
             THEN [err |-> "StateFileError", state |-> state, relays |-> rs1,
                   links |-> c.links, files |-> files, cmds |-> spawn \o c.cmds \o write]
             ELSE [err |-> "", state |-> state, relays |-> rs1, links |-> c.links,
                   files |-> save(files, state1), cmds |-> spawn \o c.cmds \o write]
             : c \in connect_loopback_to_recording_dest(ObjectsOf(ns, rs1), L,
                        state.recording_loopback_name, state.recording_dest_node_id)}

\* restart_loopback_to_recording: spawn_ok, os and io_ok are what the
\* spawn, the server and fs::write do
restart_loopback_to_recording(ns, rs, L, files, state, spawn_ok, os, io_ok) ==
    LET loopback_desc == state.source_application_name \o <<" -> ">>
                         \o state.recording_dest_application_name
        spawn == <<<<"pw-loopback", state.recording_loopback_name>>>>
    IN  IF ~spawn_ok
        THEN {[err |-> "LoopbackSpawnFailed", state |-> state, relays |-> rs,
               links |-> L, files |-> files, cmds |-> spawn]}
        ELSE
        LET rs1 == spawn_loopback_no_target(rs, state.recording_loopback_name,
                                            loopback_desc, os)
            new_pid == Len(rs1)
            state1 == [state EXCEPT !.loopback_to_recording_pid = new_pid]
            write == <<<<"write", state_file_path(state.name)>>>>
        IN  {IF c.err # ""
             THEN [err |-> c.err, state |-> state1, relays |-> rs1, links |-> c.links,
                   files |-> files, cmds |-> spawn \o c.cmds]
             ELSE IF ~io_ok
             THEN [err |-> "StateFileError", state |-> state1, relays |-> rs1,
                   links |-> c.links, files |-> files, cmds |-> spawn \o c.cmds \o write]
             ELSE [err |-> "", state |-> state1, relays |-> rs1, links |-> c.links,
                   files |-> save(files, state1), cmds |-> spawn \o c.cmds \o write]
             : c \in connect_loopback_to_recording_dest(ObjectsOf(ns, rs1), L,
                        state.recording_loopback_name, state.recording_dest_node_id)}

\* a restart_loopback_to_local that wires the new relay to the source
restart_loopback_to_local_rewired(ns, rs, L, files, state, spawn_ok, os, io_ok) ==
    LET loopback_desc == state.source_application_name \o <<" -> ", "Local">>
        spawn == <<<<"pw-loopback", state.local_loopback_name>>>>
    IN  IF ~spawn_ok
        THEN {[err |-> "LoopbackSpawnFailed", state |-> state, relays |-> rs,
               links |-> L, files |-> files, cmds |-> spawn]}
        ELSE
        LET rs1 == spawn_loopback_no_target(rs, state.local_loopback_name,
                                            loopback_desc, os)
            new_pid == Len(rs1)
            state1 == [state EXCEPT !.loopback_to_local_pid = new_pid]
            write == <<<<"write", state_file_path(state.name)>>>>
        IN  {IF c.err # ""
             THEN [err |-> c.err, state |-> state1, relays |-> rs1, links |-> c.links,
                   files |-> files, cmds |-> spawn \o c.cmds]
             ELSE IF ~io_ok
             THEN [err |-> "StateFileError", state |-> state1, relays |-> rs1,
                   links |-> c.links, files |-> files, cmds |-> spawn \o c.cmds \o write]
             ELSE [err |-> "", state |-> state1, relays |-> rs1, links |-> c.links,
                   files |-> save(files, state1), cmds |-> spawn \o c.cmds \o write]
             : c \in connect_source_to_loopback(ObjectsOf(ns, rs1), L,
                        [node_id |-> state.source_node_id], state.local_loopback_name)}

\* restart_loopback_to_local
restart_loopback_to_local(ns, rs, L, files, state, spawn_ok, os, io_ok) ==
    LET loopback_desc == state.source_application_name \o <<" -> ", "Local">>
        spawn == <<<<"pw-loopback", state.local_loopback_name>>>>
    IN  IF ~spawn_ok
        THEN {[err |-> "LoopbackSpawnFailed", state |-> state, relays |-> rs,
               links |-> L, files |-> files, cmds |-> spawn]}
        ELSE
        LET rs1 == spawn_loopback_no_target(rs, state.local_loopback_name,
                                            loopback_desc, os)
            new_pid == Len(rs1)
            state1 == [state EXCEPT !.loopback_to_local_pid = new_pid]
            write == <<<<"write", state_file_path(state.name)>>>>
        IN  {IF ~io_ok
             THEN [err |-> "StateFileError", state |-> state1, relays |-> rs1,
                   links |-> L, files |-> files, cmds |-> spawn \o write]
             ELSE [err |-> "", state |-> state1, relays |-> rs1, links |-> L,
                   files |-> save(files, state1), cmds |-> spawn \o write]}

\* ---------------------------------------------------------------- front-end types
Ctl == {1, 2}          \* front-end processes
Cli == 0               \* the process of a stop command

\* extract_audio_sources
extract_audio_sources(objects) ==
    LET hit == SelectSeq(objects, LAMBDA n : n.class = "Stream/Output/Audio")
    IN  [i \in 1..Len(hit) |->
            [node_id |-> hit[i].id, node_name |-> hit[i].name,
             application_name |-> IF hit[i].app # <<>> THEN hit[i].app ELSE hit[i].name,
             media_name |-> IF hit[i].media # <<>> THEN hit[i].media ELSE <<"Audio">>]]

\* extract_recording_dests
extract_recording_dests(objects) ==
    LET hit == SelectSeq(objects, LAMBDA n : n.class = "Stream/Input/Audio")
    IN  [i \in 1..Len(hit) |->
            [node_id |-> hit[i].id, node_name |-> hit[i].name,
             application_name |-> IF hit[i].app # <<>> THEN hit[i].app ELSE hit[i].name,
             media_name |-> IF hit[i].media # <<>> THEN hit[i].media ELSE <<"Audio">>]]

\* AudioSource::safe_name: keeps the alphanumeric characters and '_'
safe_name(application_name) ==
    SelectSeq(application_name, LAMBDA t : t \notin {" ", "-", ".", ":", "/", " -> "})

\* App::new
AppNew(objects) ==
    [state |-> "SelectSource", error |-> "",
     sources |-> extract_audio_sources(objects),
     destinations |-> extract_recording_dests(objects),
     selected_source_idx |-> 0, selected_dest_idx |-> 0,
     selected_source |-> None, selected_dest |-> None,
     source_connections |-> <<>>, active_split |-> None, should_quit |-> FALSE]

\* a front-end process that has ended: nothing of struct App is left
AppExited == [AppNew(<<>>) EXCEPT !.state = "Exited", !.should_quit = TRUE]

NoLoc ==
    [source |-> None, recording_dest |-> None, original_connections |-> <<>>,
     split_name |-> <<>>, primary_connection |-> None,
     loopback_to_recording |-> 0, loopback_to_local |-> 0,
     saved_links |-> <<>>, before |-> {}, removed |-> {}, cmds |-> <<>>]

NoEv == [op |-> "none"]

\* ---------------------------------------------------------------- initial states
SourceToSink == {<<11, 21>>, <<12, 22>>}
SourceToRecorder == {<<11, 31>>, <<12, 32>>}
SourceToRecorder2 == {<<11, 41>>, <<12, 42>>}

InitGraphs ==
    {[nodes |-> <<SourceNode, SinkNode, RecorderNode>>, links |-> {}],
     [nodes |-> <<SourceNode, SinkNode, RecorderNode>>, links |-> SourceToSink],
     [nodes |-> <<SourceNode, SinkNode, RecorderNode>>,
      links |-> SourceToSink \cup SourceToRecorder],
     [nodes |-> <<SourceNode, RecorderNode>>, links |-> {}],
     [nodes |-> <<SourceNode, RecorderNode>>, links |-> SourceToRecorder],
     [nodes |-> <<SourceNode, Source2Node, SinkNode, RecorderNode, Recorder2Node>>,
      links |-> SourceToSink],
     [nodes |-> <<SourceNode, RecorderNode, Recorder2Node>>, links |-> SourceToRecorder2]}

NoFiles == [f \in {} |-> <<>>]

\* the front-ends have just started, no split exists; budget is the number of
\* environment events and failed system calls still to come
Start(budget) ==
    /\ \E g \in InitGraphs :
        /\ nodes = g.nodes
        /\ links = g.links
        /\ app = [c \in Ctl |-> AppNew(g.nodes)]
    /\ relays = <<>>
    /\ store = NoFiles
    /\ pc = [c \in Ctl |-> "idle"]
    /\ loc = [c \in Ctl |-> NoLoc]
    /\ ev = NoEv
    /\ origin = NoFiles
    /\ faults = MaxFault - budget
    /\ clock = 0
    /\ runs = [c \in Ctl |-> 0]
    /\ torn = {}
    /\ uq = NoEv
    /\ halves \in BOOLEAN
    /\ reaps \in BOOLEAN
    /\ state_dir = FALSE

Init == Start(MaxFault)

\* ---------------------------------------------------------------- key events
Ready(c) == pc[c] = "idle" /\ ~app[c].should_quit

\* what the server and the kernel do with a child of front-end c
Os(c) == [cap_first |-> halves, parent |-> IF reaps THEN 0 ELSE c]

\* a key event that changes struct App only
KeyOnly(c, new) ==
    /\ Ready(c)
    /\ app' = [app EXCEPT ![c] = new]
    /\ ev' = NoEv
    /\ UNCHANGED <<nodes, relays, links, store, pc, loc, origin, faults, clock, runs, torn, uq, halves, reaps, state_dir>>

\* a quit that signals the relays of the split it holds
Quit_killing(c) ==
    /\ Ready(c)
    /\ app' = [app EXCEPT ![c] = AppExited]
    /\ LET rs == IF app[c].active_split = None THEN relays
                 ELSE kill_process(kill_process(relays,
                            app[c].active_split[1].loopback_to_recording_pid),
                            app[c].active_split[1].loopback_to_local_pid)
       IN  /\ relays' = ParentExited(rs, c)
           /\ links' = PruneLinks(links, ObjectsOf(nodes, relays'))
    /\ ev' = [op |-> "quit", by |-> c, state |-> app[c].active_split, was |-> app[c].state]
    /\ UNCHANGED <<nodes, store, pc, loc, origin, faults, clock, runs, torn, uq, halves, reaps, state_dir>>

\* KeyCode::Char('q'): should_quit ends the event loop and the process
Quit(c) ==
    /\ Ready(c)
    /\ app' = [app EXCEPT ![c] = AppExited]
    /\ relays' = ParentExited(relays, c)
    /\ ev' = [op |-> "quit", by |-> c, state |-> app[c].active_split, was |-> app[c].state]
    /\ UNCHANGED <<nodes, links, store, pc, loc, origin, faults, clock, runs, torn, uq, halves, reaps, state_dir>>

\* App::select_prev
SelectPrev(c) ==
    \/ /\ app[c].state = "SelectSource"
       /\ app[c].selected_source_idx > 0
       /\ KeyOnly(c, [app[c] EXCEPT !.selected_source_idx = @ - 1])
    \/ /\ app[c].state = "SelectDestination"
       /\ app[c].selected_dest_idx > 0
       /\ KeyOnly(c, [app[c] EXCEPT !.selected_dest_idx = @ - 1])

\* App::select_next
SelectNext(c) ==
    \/ /\ app[c].state = "SelectSource"
       /\ app[c].sources # <<>>
       /\ app[c].selected_source_idx < Len(app[c].sources) - 1
       /\ KeyOnly(c, [app[c] EXCEPT !.selected_source_idx = @ + 1])
    \/ /\ app[c].state = "SelectDestination"
       /\ app[c].destinations # <<>>
       /\ app[c].selected_dest_idx < Len(app[c].destinations) - 1
       /\ KeyOnly(c, [app[c] EXCEPT !.selected_dest_idx = @ + 1])

\* usize::saturating_sub(1)
saturating_dec(n) == IF n = 0 THEN 0 ELSE n - 1

\* a refresh that keeps the indices as they are
Refresh_unclamped(c) ==
    /\ app[c].state \in {"SelectSource", "SelectDestination"}
    /\ KeyOnly(c, [app[c] EXCEPT !.sources = extract_audio_sources(Objects),
                                 !.destinations = extract_recording_dests(Objects)])

\* KeyCode::Char('r') while selecting: App::refresh
Refresh(c) ==
    /\ app[c].state \in {"SelectSource", "SelectDestination"}
    /\ LET srcs == extract_audio_sources(Objects)
           dsts == extract_recording_dests(Objects)
       IN  KeyOnly(c, [app[c] EXCEPT
                !.sources = srcs,
                !.destinations = dsts,
                !.selected_source_idx =
                    IF @ >= Len(srcs) THEN saturating_dec(Len(srcs)) ELSE @,
                !.selected_dest_idx =
                    IF @ >= Len(dsts) THEN saturating_dec(Len(dsts)) ELSE @])

\* KeyCode::Char('r') in Done or Error: *app = App::new()
Reset(c) ==
    /\ app[c].state \in {"Done", "Error"}
    /\ KeyOnly(c, AppNew(Objects))

\* KeyCode::Esc: App::go_back
GoBack(c) ==
    \/ /\ app[c].state = "SelectDestination"
       /\ KeyOnly(c, [app[c] EXCEPT !.selected_source = None,
                                    !.source_connections = <<>>,
                                    !.state = "SelectSource"])
    \/ /\ app[c].state = "Confirm"
       /\ KeyOnly(c, [app[c] EXCEPT !.selected_dest = None,
                                    !.state = "SelectDestination"])

\* App::go_back on struct App: the match on self.state
go_back(a) ==
    CASE a.state = "SelectDestination" ->
            [a EXCEPT !.selected_source = None, !.source_connections = <<>>,
                      !.state = "SelectSource"]
      [] a.state = "Confirm" ->
            [a EXCEPT !.selected_dest = None, !.state = "SelectDestination"]
      [] OTHER -> a

\* KeyCode::Esc in any state, with the key left in ev
Esc(c) ==
    /\ Ready(c)
    /\ app' = [app EXCEPT ![c] = go_back(app[c])]
    /\ ev' = [op |-> "esc", by |-> c, was |-> app[c].state]
    /\ UNCHANGED <<nodes, relays, links, store, pc, loc, origin, faults, clock, runs, torn, uq, halves, reaps, state_dir>>

\* KeyCode::Enter in SelectSource: App::confirm_selection
ConfirmSource(c) ==
    /\ app[c].state = "SelectSource"
    /\ app[c].sources # <<>>
    /\ LET source == app[c].sources[app[c].selected_source_idx + 1] IN
       \E conns \in find_source_connections(source.node_id, Objects, links) :
          KeyOnly(c, [app[c] EXCEPT !.source_connections = conns,
                                    !.selected_source = Some(source),
                                    !.state = "SelectDestination"])

\* KeyCode::Enter in SelectDestination: App::confirm_selection
ConfirmDestination(c) ==
    /\ app[c].state = "SelectDestination"
    /\ app[c].destinations # <<>>
    /\ KeyOnly(c, [app[c] EXCEPT
            !.selected_dest = Some(app[c].destinations[app[c].selected_dest_idx + 1]),
            !.state = "Confirm"])

\* ---------------------------------------------------------------- setup_split
\* the names setup_split derives from the source
split_base_name(source) == safe_name(source.application_name) \o <<"_Split">>
recording_loopback_name(source) == safe_name(source.application_name) \o <<"_to_Recording">>
local_loopback_name(source) == safe_name(source.application_name) \o <<"_to_Local">>
recording_loopback_desc(source, dest) ==
    source.application_name \o <<" -> ">> \o dest.application_name
local_loopback_desc(source) == source.application_name \o <<" -> ", "Local">>

\* what a setup_split call that returns leaves behind for the properties: its
\* arguments, result, locals and commands, and the step it returned from
SetupEv(c, l, kind, state, wrote_over) ==
    [op |-> "setup", by |-> c, err |-> kind, state |-> state, at |-> pc[c],
     name |-> l.split_name,
     source |-> l.source[1], recording_dest |-> l.recording_dest[1],
     connections |-> l.original_connections, primary_connection |-> l.primary_connection,
     spawned |-> {l.loopback_to_recording, l.loopback_to_local} \ {0},
     before |-> l.before, removed |-> l.removed, cmds |-> l.cmds,
     wrote_over |-> wrote_over]

\* setup_split goes on to its next step
Continue(c, l, next) ==
    /\ pc' = [pc EXCEPT ![c] = next]
    /\ loc' = [loc EXCEPT ![c] = l]
    /\ ev' = NoEv
    /\ UNCHANGED app

\* setup_split returns Err(kind): execute_split shows the error
ReturnErr(c, l, kind) ==
    /\ pc' = [pc EXCEPT ![c] = "idle"]
    /\ loc' = [loc EXCEPT ![c] = NoLoc]
    /\ app' = [app EXCEPT ![c].state = "Error", ![c].error = kind]
    /\ ev' = SetupEv(c, l, kind, None, FALSE)

\* setup_split up to find_primary_output: the split name, then the primary
\* connection
SetupEnter(c, source, dest, connections) ==
    LET split_name == generate_unique_name(store, split_base_name(source))
        p == find_primary_output(connections, Objects)
        targets == {connections[i].target_node_id : i \in 1..Len(connections)}
        l == [NoLoc EXCEPT !.source = Some(source), !.recording_dest = Some(dest),
                           !.original_connections = connections,
                           !.split_name = split_name,
                           !.primary_connection = p.conn,
                           !.before = {k \in links : /\ NodeOfPort(k[1]) = source.node_id
                                                     /\ NodeOfPort(k[2]) \in targets},
                           !.cmds = p.cmds]
    IN  /\ Ready(c)
        /\ runs[c] < MaxSetup
        /\ runs' = [runs EXCEPT ![c] = @ + 1]
        /\ IF p.err # "" THEN ReturnErr(c, l, p.err) ELSE Continue(c, l, "spawn_recording")
        /\ UNCHANGED <<nodes, relays, links, store, origin, faults, clock, torn, uq, halves, reaps, state_dir>>

\* KeyCode::Enter in Confirm: App::execute_split, up to the call of setup_split
ExecuteSplit(c) ==
    /\ app[c].state = "Confirm"
    /\ app[c].selected_source # None /\ app[c].selected_dest # None
    /\ LET source == app[c].selected_source[1]
           dest == app[c].selected_dest[1]
           sinks == extract_audio_sinks(Objects)
       IN  IF app[c].source_connections # <<>>
           THEN SetupEnter(c, source, dest, app[c].source_connections)
           ELSE IF sinks # <<>>
           THEN SetupEnter(c, source, dest,
                    <<[source_node_id |-> source.node_id,
                       target_node_id |-> sinks[1].id,
                       target_node_name |-> sinks[1].name,
                       links |-> {}]>>)
           ELSE KeyOnly(c, [app[c] EXCEPT !.state = "Error",
                                          !.error = "No output sinks available"])

\* setup_split called by another caller than execute_split, with any prefix of
\* the source's connections as original_connections (the empty list included)
SetupSplitCall(c) ==
    /\ app[c].state = "Confirm"
    /\ app[c].selected_source # None /\ app[c].selected_dest # None
    /\ LET source == app[c].selected_source[1] IN
       \E conns \in find_source_connections(source.node_id, Objects, links) :
       \E n \in 0..Len(conns) :
          SetupEnter(c, source, app[c].selected_dest[1], SubSeq(conns, 1, n))

\* steps 1 and 2: spawn_loopback_no_target(..)?
SetupSpawn(c, at, next, field, name, desc) ==
    /\ pc[c] = at
    /\ LET l == [loc[c] EXCEPT !.cmds = @ \o <<<<"pw-loopback", name>>>>] IN
       \E spawn_ok \in BOOLEAN :
          IF spawn_ok
          THEN /\ Len(relays) < MaxSpawn
               /\ relays' = spawn_loopback_no_target(relays, name, desc, Os(c))
               /\ Continue(c, [l EXCEPT ![field] = Len(relays) + 1], next)
               /\ UNCHANGED faults
          ELSE /\ faults < MaxFault
               /\ faults' = faults + 1
               /\ ReturnErr(c, l, "LoopbackSpawnFailed")
               /\ UNCHANGED relays
    /\ UNCHANGED <<runs, nodes, links, store, origin, clock, torn, uq, halves, reaps, state_dir>>

SetupSpawnRecording(c) ==
    SetupSpawn(c, "spawn_recording", "spawn_local", "loopback_to_recording",
               recording_loopback_name(loc[c].source[1]),
               recording_loopback_desc(loc[c].source[1], loc[c].recording_dest[1]))

SetupSpawnLocal(c) ==
    SetupSpawn(c, "spawn_local", "disconnect", "loopback_to_local",
               local_loopback_name(loc[c].source[1]),
               local_loopback_desc(loc[c].source[1]))

\* step 3: one snapshot, then disconnect_source_from_target on every original
\* connection
SetupDisconnect(c) ==
    /\ pc[c] = "disconnect"
    /\ \E o \in disconnect_all(Objects, links, loc[c].source[1],
                               loc[c].original_connections, Objects) :
        /\ links' = o.links
        /\ Continue(c, [loc[c] EXCEPT !.saved_links = o.saved,
                                      !.removed = links \ o.links,
                                      !.cmds = @ \o <<<<"pw-dump">>>> \o o.cmds],
                    "connect_recording_capture")
    /\ UNCHANGED <<nodes, relays, store, origin, faults, clock, runs, torn, uq, halves, reaps, state_dir>>

\* steps 4 and 5: one wiring call, with ? on its result
SetupWire(c, at, next, outcomes) ==
    /\ pc[c] = at
    /\ \E o \in outcomes :
        LET l == [loc[c] EXCEPT !.cmds = @ \o o.cmds] IN
        /\ links' = o.links
        /\ IF o.err = "" THEN Continue(c, l, next) ELSE ReturnErr(c, l, o.err)
    /\ UNCHANGED <<nodes, relays, store, origin, faults, clock, runs, torn, uq, halves, reaps, state_dir>>

SetupConnectRecordingCapture(c) ==
    SetupWire(c, "connect_recording_capture", "connect_local_capture",
              connect_source_to_loopback(Objects, links, loc[c].source[1],
                                         recording_loopback_name(loc[c].source[1])))

SetupConnectLocalCapture(c) ==
    SetupWire(c, "connect_local_capture", "connect_recording_playback",
              connect_source_to_loopback(Objects, links, loc[c].source[1],
                                         local_loopback_name(loc[c].source[1])))

SetupConnectRecordingPlayback(c) ==
    SetupWire(c, "connect_recording_playback", "connect_local_playback",
              connect_loopback_to_recording_dest(Objects, links,
                    recording_loopback_name(loc[c].source[1]),
                    loc[c].recording_dest[1].node_id))

SetupConnectLocalPlayback(c) ==
    SetupWire(c, "connect_local_playback", "save",
              connect_loopback_to_sink(Objects, links,
                    local_loopback_name(loc[c].source[1]),
                    loc[c].primary_connection[1].target_node_name))

\* the SplitState setup_split builds
NewSplitState(l, now) ==
    [name |-> l.split_name,
     source_node_id |-> l.source[1].node_id,
     source_node_name |-> l.source[1].node_name,
     source_application_name |-> l.source[1].application_name,
     recording_loopback_name |-> recording_loopback_name(l.source[1]),
     local_loopback_name |-> local_loopback_name(l.source[1]),
     recording_dest_node_id |-> l.recording_dest[1].node_id,
     recording_dest_media_name |-> l.recording_dest[1].media_name,
     recording_dest_application_name |-> l.recording_dest[1].application_name,
     original_output_node_name |-> l.primary_connection[1].target_node_name,
     original_links |-> l.saved_links,
     loopback_to_recording_pid |-> l.loopback_to_recording,
     loopback_to_local_pid |-> l.loopback_to_local,
     created_at |-> now]

SplitId(state) == <<state.name, state.created_at>>

\* a setup_split that returns Ok without having written the record
SetupSave_unsaved(c) ==
    /\ pc[c] = "save"
    /\ LET state == NewSplitState(loc[c], clock) IN
        /\ app' = [app EXCEPT ![c].active_split = Some(state), ![c].state = "Active"]
        /\ pc' = [pc EXCEPT ![c] = "idle"]
        /\ loc' = [loc EXCEPT ![c] = NoLoc]
        /\ ev' = SetupEv(c, loc[c], "", Some(state), FALSE)
        /\ clock' = clock + 1
    /\ UNCHANGED <<runs, nodes, relays, links, store, origin, faults, torn, uq, halves, reaps,
                   state_dir>>

\* state.save()?, then Ok(SplitResult): execute_split holds the split as active
SetupSave(c) ==
    /\ pc[c] = "save"
    /\ LET state == NewSplitState(loc[c], clock)
           l == [loc[c] EXCEPT !.cmds = @ \o <<<<"write", state_file_path(state.name)>>>>]
       IN  \E io_ok \in BOOLEAN :
           IF io_ok
           THEN /\ store' = save(store, state)
                /\ app' = [app EXCEPT ![c].active_split = Some(state),
                                      ![c].state = "Active"]
                /\ pc' = [pc EXCEPT ![c] = "idle"]
                /\ loc' = [loc EXCEPT ![c] = NoLoc]
                /\ ev' = SetupEv(c, l, "", Some(state), exists(store, state.name))
                /\ origin' = [i \in DOMAIN origin \cup {SplitId(state)} |->
                                IF i = SplitId(state)
                                THEN [before |-> l.before, source |-> state.source_node_id,
                                      targets |-> {l.original_connections[k].target_node_id :
                                                    k \in 1..Len(l.original_connections)}]
                                ELSE origin[i]]
                /\ clock' = clock + 1
                /\ state_dir' = TRUE
                /\ UNCHANGED faults
           ELSE /\ faults < MaxFault
                /\ faults' = faults + 1
                /\ ReturnErr(c, l, "StateFileError")
                /\ UNCHANGED <<store, origin, clock, state_dir>>
    /\ UNCHANGED <<runs, nodes, relays, links, torn, uq, halves, reaps>>

\* ---------------------------------------------------------------- teardown
\* a front-end that shows Done after every teardown, failed or not
TeardownDone_always(p, state, o) ==
    /\ o.delete_failed => faults < MaxFault
    /\ faults' = faults + (IF o.delete_failed THEN 1 ELSE 0)
    /\ relays' = o.relays
    /\ links' = o.links
    /\ store' = o.files
    /\ torn' = IF o.ok THEN torn \cup {SplitId(state)} ELSE torn
    /\ ev' = [op |-> "teardown", by |-> p, state |-> state, ok |-> o.ok,
              cmds |-> o.cmds, kill_failed |-> o.kill_failed,
              link_failed |-> o.link_failed, delete_failed |-> o.delete_failed,
              links_before |-> links, had |-> exists(store, state.name)]
    /\ IF p \in Ctl
       THEN app' = [app EXCEPT ![p].active_split = None, ![p].state = "Done"]
       ELSE UNCHANGED app
    /\ UNCHANGED <<runs, nodes, pc, loc, origin, clock, uq, halves, reaps, state_dir>>

\* one call of teardown_split by process p, with what it leaves behind for the
\* properties
TeardownDone(p, state, o) ==
    /\ o.delete_failed => faults < MaxFault
    /\ faults' = faults + (IF o.delete_failed THEN 1 ELSE 0)
    /\ relays' = o.relays
    /\ links' = o.links
    /\ store' = o.files
    /\ torn' = IF o.ok THEN torn \cup {SplitId(state)} ELSE torn
    /\ ev' = [op |-> "teardown", by |-> p, state |-> state, ok |-> o.ok,
              cmds |-> o.cmds, kill_failed |-> o.kill_failed,
              link_failed |-> o.link_failed, delete_failed |-> o.delete_failed,
              links_before |-> links, had |-> exists(store, state.name)]
    /\ IF p \in Ctl /\ o.ok
       THEN app' = [app EXCEPT ![p].active_split = None, ![p].state = "Done"]
       ELSE UNCHANGED app
    /\ UNCHANGED <<runs, nodes, pc, loc, origin, clock, uq, halves, reaps, state_dir>>

Teardown(p, state) ==
    \E io_ok \in BOOLEAN :
    \E o \in teardown_split(nodes, relays, links, store, state, io_ok) :
        TeardownDone(p, state, o)

\* KeyCode::Enter in Active: confirm_selection stops the split
StopActive(c) ==
    /\ Ready(c)
    /\ app[c].state = "Active"
    /\ app[c].active_split # None
    /\ Teardown(c, app[c].active_split[1])

\* pw-splitter stop <name>: stop_split on a record of the store
CliStop ==
    \E f \in DOMAIN store :
        LET name == SubSeq(f, 1, Len(f) - 1)
            state == load(store, name)
        IN  /\ state # None
            /\ Teardown(Cli, state[1])

\* ---------------------------------------------------------------- health check
NoRestart(state) ==
    [err |-> "", state |-> state, relays |-> relays, links |-> links, files |-> store,
     cmds |-> <<>>]

Injected(o) == IF o.err \in {"LoopbackSpawnFailed", "StateFileError"} THEN 1 ELSE 0

\* what one restart wrote: the version persisted before and the one written
Writes(files, o, which, was) ==
    IF o.files # files
    THEN <<[prev |-> load(files, o.state.name), new |-> o.state, which |-> which,
            was |-> was]>>
    ELSE <<>>

\* the tick of handle_events in Active: App::check_and_restart_loopbacks
Tick(c) ==
    /\ Ready(c)
    /\ app[c].state = "Active"
    /\ app[c].active_split # None
    /\ LET state == app[c].active_split[1]
           running == check_loopbacks_running(relays, state)
       IN  /\ \E s1 \in BOOLEAN, w1 \in BOOLEAN :
              \E r1 \in IF running[1] THEN {NoRestart(state)}
                        ELSE restart_loopback_to_recording(nodes, relays, links, store,
                                                           state, s1, Os(c), w1) :
              \E s2 \in BOOLEAN, w2 \in BOOLEAN :
              \E r2 \in IF running[2]
                        THEN {[r1 EXCEPT !.err = "", !.cmds = <<>>]}
                        ELSE restart_loopback_to_local(nodes, r1.relays, r1.links, r1.files,
                                                       r1.state, s2, Os(c), w2) :
                /\ Len(r2.relays) <= MaxSpawn
                /\ faults + Injected(r1) + Injected(r2) <= MaxFault
                /\ faults' = faults + Injected(r1) + Injected(r2)
                /\ relays' = r2.relays
                /\ links' = r2.links
                /\ store' = r2.files
                /\ state_dir' = (state_dir \/ r2.files # store)
                /\ app' = [app EXCEPT ![c].active_split = Some(r2.state)]
                /\ ev' = [op |-> "tick", by |-> c, before |-> state, after |-> r2.state,
                          running |-> running, errs |-> <<r1.err, r2.err>>,
                          cmds |-> r1.cmds \o r2.cmds, local_cmds |-> r2.cmds,
                          writes |-> Writes(store, r1, "recording", state)
                                     \o Writes(r1.files, r2, "local", r1.state)]
    /\ UNCHANGED <<runs, nodes, pc, loc, origin, clock, torn, uq, halves, reaps>>

\* ---------------------------------------------------------------- environment
\* a relay process crashes
RelayCrash ==
    /\ faults < MaxFault
    /\ \E pid \in 1..Len(relays) :
        /\ relays[pid].state = "run"
        /\ relays' = Exited(relays, pid)
        /\ links' = PruneLinks(links, ObjectsOf(nodes, relays'))
    /\ faults' = faults + 1
    /\ ev' = NoEv
    /\ UNCHANGED <<runs, nodes, store, app, pc, loc, origin, clock, torn, uq, halves, reaps, state_dir>>

\* someone else (a session manager, the user) removes the source's links to a node
LinkRemoved ==
    /\ faults < MaxFault
    /\ \E t \in {NodeOfPort(k[2]) : k \in {k \in links : NodeOfPort(k[1]) = SourceNode.id}} :
        links' = {k \in links : ~(NodeOfPort(k[1]) = SourceNode.id /\ NodeOfPort(k[2]) = t)}
    /\ faults' = faults + 1
    /\ ev' = NoEv
    /\ UNCHANGED <<runs, nodes, relays, store, app, pc, loc, origin, clock, torn, uq, halves, reaps, state_dir>>

\* an application or device node leaves the graph
NodeRemoved ==
    /\ faults < MaxFault
    /\ \E i \in 1..Len(nodes) :
        /\ nodes' = SubSeq(nodes, 1, i - 1) \o SubSeq(nodes, i + 1, Len(nodes))
        /\ links' = PruneLinks(links, ObjectsOf(nodes', relays))
    /\ faults' = faults + 1
    /\ ev' = NoEv
    /\ UNCHANGED <<runs, relays, store, app, pc, loc, origin, clock, torn, uq, halves, reaps, state_dir>>

\* the kernel gives the pid of a relay that is gone to a new process that is
\* no relay
PidReused ==
    /\ faults < MaxFault
    /\ \E pid \in 1..Len(relays) :
        /\ relays[pid].state = "gone"
        /\ relays' = [relays EXCEPT ![pid].state = "other"]
    /\ faults' = faults + 1
    /\ ev' = NoEv
    /\ UNCHANGED <<runs, nodes, links, store, app, pc, loc, origin, clock, torn, uq, halves, reaps, state_dir>>

\* ---------------------------------------------------------------- next-state relation
Key(c) ==
    \/ Quit(c)
    \/ SelectPrev(c)
    \/ SelectNext(c)
    \/ Refresh(c)
    \/ Reset(c)
    \/ GoBack(c)
    \/ ConfirmSource(c)
    \/ ConfirmDestination(c)
    \/ ExecuteSplit(c)
    \/ SetupSplitCall(c)
    \/ StopActive(c)

Setup(c) ==
    \/ SetupSpawnRecording(c)
    \/ SetupSpawnLocal(c)
    \/ SetupDisconnect(c)
    \/ SetupConnectRecordingCapture(c)
    \/ SetupConnectLocalCapture(c)
    \/ SetupConnectRecordingPlayback(c)
    \/ SetupConnectLocalPlayback(c)
    \/ SetupSave(c)

Environment == RelayCrash \/ LinkRemoved \/ NodeRemoved

Next == Key(1) \/ Setup(1) \/ Tick(1) \/ CliStop \/ Environment

Spec == Init /\ [][Next]_vars

\* two front-end processes on one machine, each going straight for a split, with
\* nothing else happening
InitRace == Start(0)

NextRace ==
    \E c \in Ctl :
        \/ ConfirmSource(c)
        \/ ConfirmDestination(c)
        \/ ExecuteSplit(c)
        \/ Setup(c)
        \/ StopActive(c)

SpecRace == InitRace /\ [][NextRace]_vars

\* ---------------------------------------------------------------- unique names
\* generate_unique_name on its own, over stores that hold any of these names
Bases == {split_base_name(extract_audio_sources(<<SourceNode, Source2Node>>)[i]) : i \in 1..2}

Suffixed(base_name, k) == base_name \o <<"_">> \o Dec(k)

StoredNames == Bases \cup {Suffixed(b, k) : b \in Bases, k \in 1..MaxSuffix}

\* a record as setup_split leaves it under the name n
RecordNamed(n) ==
    [name |-> n, source_node_id |-> SourceNode.id, source_node_name |-> SourceNode.name,
     source_application_name |-> SourceNode.app,
     recording_loopback_name |-> recording_loopback_name(extract_audio_sources(<<SourceNode>>)[1]),
     local_loopback_name |-> local_loopback_name(extract_audio_sources(<<SourceNode>>)[1]),
     recording_dest_node_id |-> RecorderNode.id,
     recording_dest_media_name |-> RecorderNode.media,
     recording_dest_application_name |-> RecorderNode.app,
     original_output_node_name |-> SinkNode.name,
     original_links |-> <<>>, loopback_to_recording_pid |-> 1,
     loopback_to_local_pid |-> 2, created_at |-> 0]

InitName ==
    /\ \E names \in SUBSET StoredNames :
        store = [f \in {state_file_path(n) : n \in names} |->
                    to_json(RecordNamed(SubSeq(f, 1, Len(f) - 1)))]
    /\ nodes = <<SourceNode, SinkNode, RecorderNode>>
    /\ links = {}
    /\ relays = <<>>
    /\ app = [c \in Ctl |-> AppNew(nodes)]
    /\ pc = [c \in Ctl |-> "idle"]
    /\ loc = [c \in Ctl |-> NoLoc]
    /\ ev = NoEv
    /\ origin = NoFiles
    /\ faults = 0
    /\ clock = 0
    /\ runs = [c \in Ctl |-> 0]
    /\ torn = {}
    /\ uq = NoEv
    /\ halves = TRUE
    /\ reaps = FALSE
    /\ state_dir = TRUE

\* one call of SplitState::generate_unique_name
GenerateUniqueName ==
    /\ \E base_name \in Bases :
        uq' = [op |-> "unique", base_name |-> base_name, files |-> store,
               name |-> generate_unique_name(store, base_name)]
    /\ UNCHANGED <<nodes, relays, links, store, app, pc, loc, ev, origin, faults, clock,
                   runs, torn, halves, reaps, state_dir>>

SpecName == InitName /\ [][GenerateUniqueName]_vars

\* C10: generate_unique_name(base) returns base when no record has that name,
\* otherwise base_k for the smallest k >= 1 such that no record is named base_k;
\* the name it returns is never the name of a record, and the store is as it was.
C10_UniqueName ==
    uq # NoEv =>
        /\ store = uq.files
        /\ ~exists(uq.files, uq.name)
        /\ IF ~exists(uq.files, uq.base_name)
           THEN uq.name = uq.base_name
           ELSE \E k \in 1..(MaxSuffix + 1) :
                    /\ uq.name = Suffixed(uq.base_name, k)
                    /\ \A j \in 1..(k - 1) : exists(uq.files, Suffixed(uq.base_name, j))

\* the base name and base_1 are taken, base_3 too: the call returned base_2
C10_Witness ==
    /\ uq # NoEv
    /\ exists(store, uq.base_name)
    /\ exists(store, Suffixed(uq.base_name, 1))
    /\ exists(store, Suffixed(uq.base_name, 3))
    /\ uq.name = Suffixed(uq.base_name, 2)

\* ---------------------------------------------------------------- the store on its own
\* save, load and list_all over stores that hold records and foreign files
SavedPair(node, i) ==
    [output_port |-> get_port_link_name(SourceNode.name, PortsOfNode(SourceNode)[i].port_name),
     input_port |-> get_port_link_name(node.name, PortsOfNode(node)[i].port_name)]

SavedLists ==
    {<<>>,
     <<SavedPair(SinkNode, 1), SavedPair(SinkNode, 2)>>,
     <<SavedPair(SinkNode, 2), SavedPair(RecorderNode, 1), SavedPair(SinkNode, 1)>>}

\* records as setup_split and the restarts leave them; the application name
\* holds a quoted word and a backslash
StoreRecords ==
    {[RecordNamed(n) EXCEPT
            !.original_links = ls,
            !.loopback_to_recording_pid = pid,
            !.source_application_name = <<"My", " ", Quote, "App", Quote, Backslash>>,
            !.created_at = 1700 + pid]
     : n \in Bases, ls \in SavedLists, pid \in {7, 120}}

\* files that are not records: a file of another kind, a record written in
\* part, a binary file, a record with a field of the wrong type
OtherFiles ==
    {(<<"notes", ".txt">> :> to_json(RecordNamed(<<"notes">>)))
        @@ (<<"Partial", ".json">> :> SubSeq(to_json(RecordNamed(<<"Partial">>)), 1, 5)),
     (<<"Binary", ".json">> :> NotUtf8)
        @@ (<<"Typed", ".json">> :>
                [to_json(RecordNamed(<<"Typed">>)) EXCEPT ![2] = <<"source_node_id", <<Quote, "1", Quote>>>>])}

InitStore ==
    /\ \/ state_dir = FALSE /\ store = NoFiles
       \/ state_dir = TRUE /\ store \in {NoFiles} \cup OtherFiles
    /\ nodes = <<SourceNode, SinkNode, RecorderNode>>
    /\ links = {}
    /\ relays = <<>>
    /\ app = [c \in Ctl |-> AppNew(nodes)]
    /\ pc = [c \in Ctl |-> "idle"]
    /\ loc = [c \in Ctl |-> NoLoc]
    /\ ev = NoEv
    /\ origin = NoFiles
    /\ faults = 0
    /\ clock = 0
    /\ runs = [c \in Ctl |-> 0]
    /\ torn = {}
    /\ uq = NoEv
    /\ halves = TRUE
    /\ reaps = FALSE

\* record.save() and then SplitState::load(&record.name)
SaveLoad ==
    /\ \E record \in StoreRecords :
        /\ store' = save(store, record)
        /\ ev' = [op |-> "save_load", record |-> record,
                  prev |-> load(store, record.name),
                  loaded |-> load(store', record.name)]
    /\ state_dir' = TRUE
    /\ UNCHANGED <<nodes, relays, links, app, pc, loc, origin, faults, clock, runs, torn,
                   uq, halves, reaps>>

\* pw-splitter list: SplitState::list_all
ListAll ==
    /\ \E io_ok \in BOOLEAN :
       \E o \in list_all(store, state_dir, io_ok) :
          ev' = [op |-> "list", files |-> store, dir_exists |-> state_dir,
                 err |-> o.err, states |-> o.states]
    /\ UNCHANGED <<nodes, relays, links, store, app, pc, loc, origin, faults, clock, runs,
                   torn, uq, halves, reaps, state_dir>>

SpecStore == InitStore /\ [][SaveLoad \/ ListAll]_vars

\* C11: save(r) followed by load(r.name) returns a record equal to r in every
\* field, the severed-link list in the same order included, also when a record
\* of that name was saved before.
C11_SaveLoad ==
    ev.op = "save_load" =>
        /\ ev.loaded # None
        /\ \A i \in 1..Len(SplitFields) :
                ev.loaded[1][SplitFields[i]] = ev.record[SplitFields[i]]
        /\ ev.loaded[1].original_links = ev.record.original_links

\* a record with three severed links has replaced one of the same name with two
C11_Witness ==
    /\ ev.op = "save_load"
    /\ ev.prev # None
    /\ Len(ev.prev[1].original_links) = 2
    /\ Len(ev.record.original_links) = 3
    /\ ev.loaded = Some(ev.record)
    /\ Contains(ev.loaded[1].source_application_name, <<Backslash>>)

\* the entries of a store that hold a record
RecordEntries(files) ==
    {path \in DOMAIN files :
        /\ path[Len(path)] = ".json"
        /\ files[path] # NotUtf8
        /\ from_json(files[path]) # None}

\* C12: list_all returns exactly the records of the entries that parse as a
\* record, skipping the others without failing, and the empty list without
\* error when the directory does not exist.
C12_ListAll ==
    ev.op = "list" =>
        /\ ~ev.dir_exists => ev.err = "" /\ ev.states = <<>>
        /\ ev.err = "" =>
            /\ SeqToSet(ev.states) = {from_json(ev.files[path])[1] : path \in RecordEntries(ev.files)}
            /\ Len(ev.states) = Cardinality(RecordEntries(ev.files))
        /\ ev.err # "" => ev.dir_exists /\ ev.err = "StateFileError" /\ ev.states = <<>>

\* a listing of two records out of a store with a binary file and an
\* ill-typed record
C12_Witness ==
    /\ ev.op = "list"
    /\ ev.err = ""
    /\ Len(ev.states) = 2
    /\ <<"Binary", ".json">> \in DOMAIN ev.files
    /\ <<"Typed", ".json">> \in DOMAIN ev.files

\* a listing without a directory
C12_NoDirectory == ev.op = "list" /\ ~ev.dir_exists /\ ev.err = "" /\ ev.states = <<>>

\* ---------------------------------------------------------------- stop commands
\* the names given to pw-splitter stop: those of the files of the store, and
\* one that no file has
StopNames(files) == {SubSeq(f, 1, Len(f) - 1) : f \in DOMAIN files} \cup {<<"Nothing">>}

\* pw-splitter stop <name>: stop_split with any name
CliStopName ==
    \E name \in StopNames(store), io_ok \in BOOLEAN :
    \E r \in stop_split(nodes, relays, links, store, name, io_ok) :
        IF r.t = None
        THEN /\ store' = r.files
             /\ ev' = [op |-> "stop", name |-> name, err |-> r.err, cmds |-> <<>>]
             /\ UNCHANGED <<nodes, relays, links, app, pc, loc, origin, faults, clock, runs,
                            torn, uq, halves, reaps, state_dir>>
        ELSE TeardownDone(Cli, r.state[1], r.t[1])

\* pw-splitter stop --all: stop_all_splits
CliStopAll ==
    \E list_ok \in BOOLEAN :
    \E del_ok \in [1..Cardinality({f \in DOMAIN store : list_entry(store, f) # <<>>})
                    -> BOOLEAN] :
    \E r \in stop_all_splits(nodes, relays, links, store, state_dir, list_ok, del_ok) :
        LET injected == r.delete_failed + (IF r.err # "" THEN 1 ELSE 0) IN
        /\ faults + injected <= MaxFault
        /\ faults' = faults + injected
        /\ relays' = r.relays
        /\ links' = r.links
        /\ store' = r.files
        /\ torn' = torn \cup {SplitId(r.calls[i].state) : i \in {i \in 1..Len(r.calls) : r.calls[i].ok}}
        /\ ev' = [op |-> "stop_all", err |-> r.err, listed |-> r.listed,
                  stopped |-> r.stopped, calls |-> r.calls, files |-> store]
        /\ UNCHANGED <<nodes, app, pc, loc, origin, clock, runs, uq, halves, reaps, state_dir>>

\* two front-ends set up a split each, on a store that holds foreign files, and
\* stop commands are given at any time
InitCli ==
    /\ nodes = <<SourceNode, Source2Node, SinkNode, RecorderNode, Recorder2Node>>
    /\ links = SourceToSink
    /\ app = [c \in Ctl |-> AppNew(nodes)]
    /\ relays = <<>>
    /\ store \in {files \in OtherFiles : <<"Partial", ".json">> \in DOMAIN files}
    /\ state_dir = TRUE
    /\ pc = [c \in Ctl |-> "idle"]
    /\ loc = [c \in Ctl |-> NoLoc]
    /\ ev = NoEv
    /\ origin = NoFiles
    /\ faults = MaxFault - 1
    /\ clock = 0
    /\ runs = [c \in Ctl |-> 0]
    /\ torn = {}
    /\ uq = NoEv
    /\ halves = FALSE
    /\ reaps = FALSE

\* the keys that lead a front-end to a split
Split(c) ==
    \/ SelectNext(c)
    \/ ConfirmSource(c)
    \/ ConfirmDestination(c)
    \/ ExecuteSplit(c)
    \/ Setup(c)

\* the second front-end is used once the first has got its answer
NextCli ==
    \/ Split(1)
    \/ app[1].state \in {"Active", "Error"} /\ Split(2)
    \/ CliStopName
    \/ CliStopAll

SpecCli == InitCli /\ [][NextCli]_vars

\* ---------------------------------------------------------------- links on their own
\* create_link and destroy_link called with any of these port names on a graph
\* in which two nodes carry one name
LinkOutputs ==
    {get_port_link_name(SourceNode.name, PortsOfNode(SourceNode)[1].port_name),
     get_port_link_name(<<"Ghost">>, PortsOfNode(SourceNode)[1].port_name)}

LinkInputs ==
    {get_port_link_name(SinkNode.name, PortsOfNode(SinkNode)[1].port_name),
     get_port_link_name(RecorderNode.name, PortsOfNode(RecorderNode)[1].port_name),
     Dec(PortsOfNode(Recorder2Node)[1].port_id)}

InitLink ==
    /\ nodes = <<SourceNode, Source2Node, SinkNode, RecorderNode, Recorder2Node>>
    /\ links \in {{}, SourceToSink}
    /\ relays = <<>>
    /\ store = NoFiles
    /\ app = [c \in Ctl |-> AppNew(nodes)]
    /\ pc = [c \in Ctl |-> "idle"]
    /\ loc = [c \in Ctl |-> NoLoc]
    /\ ev = NoEv
    /\ origin = NoFiles
    /\ faults = 0
    /\ clock = 0
    /\ runs = [c \in Ctl |-> 0]
    /\ torn = {}
    /\ uq = NoEv
    /\ halves = TRUE
    /\ reaps = FALSE
    /\ state_dir = FALSE

\* what a call leaves behind for the properties
LinkEv(op, out, in, o, r) ==
    [op |-> op, out |-> out, in |-> in, status |-> o.status, stderr |-> o.stderr,
     ok |-> r.ok, before |-> links, answered |-> o \notin PwLinkFails(links),
     from |-> ResolvePort(Objects, out, "output"), to |-> ResolvePort(Objects, in, "input")]

\* one call of create_link
CreateLink ==
    /\ \E out \in LinkOutputs, in \in LinkInputs :
       \E o \in PwLink(Objects, links, out, in) \cup PwLinkFails(links) :
          /\ links' = create_link_result(o).links
          /\ ev' = LinkEv("link", out, in, o, create_link_result(o))
    /\ UNCHANGED <<nodes, relays, store, app, pc, loc, origin, faults, clock, runs, torn,
                   uq, halves, reaps, state_dir>>

\* one call of destroy_link
DestroyLink ==
    /\ \E out \in LinkOutputs, in \in LinkInputs :
       \E o \in PwUnlink(Objects, links, out, in) \cup PwLinkFails(links) :
          /\ links' = destroy_link_result(o).links
          /\ ev' = LinkEv("unlink", out, in, o, destroy_link_result(o))
    /\ UNCHANGED <<nodes, relays, store, app, pc, loc, origin, faults, clock, runs, torn,
                   uq, halves, reaps, state_dir>>

SpecLink == InitLink /\ [][CreateLink \/ DestroyLink]_vars

\* the link between the first ports the two names of a call resolve to
Named(e) ==
    IF e.from = <<>> \/ e.to = <<>> THEN {}
    ELSE {<<e.from[1].port_id, e.to[1].port_id>>}

\* C13: create_link and destroy_link are idempotent: linking two ports of the
\* graph succeeds and links them, a second create_link of the same ports
\* succeeds too and leaves the links as the first call left them, and
\* destroy_link of ports that no link joins succeeds and changes no link.
C13_Idempotent ==
    [][/\ (ev'.op = "link" /\ ev'.answered /\ Named(ev') # {})
            => ev'.ok /\ links' = links \cup Named(ev')
       /\ (/\ ev.op = "link" /\ ev.ok /\ ev.answered
           /\ ev'.op = "link" /\ ev'.answered
           /\ ev'.out = ev.out /\ ev'.in = ev.in)
            => ev'.ok /\ links' = links
       /\ (ev'.op = "unlink" /\ ev'.answered /\ Named(ev') \cap links = {})
            => ev'.ok /\ links' = links]_vars

\* a second create_link of a pair whose input name two nodes carry
C13_Witness ==
    /\ ev.op = "link"
    /\ ev.answered
    /\ Len(ev.to) = 2
    /\ Named(ev) \subseteq ev.before
    /\ ev.ok
    /\ links = ev.before

\* C14: every failure of pw-link other than the already-linked / not-linked
\* answer is returned as an error, and a failed unlink is reported as success
\* only when the failure says that the link does not exist.
C14_FailuresSurface ==
    /\ (ev.op = "link" /\ ev.status # 0 /\ ~Contains(ev.stderr, <<"File exists">>))
            => ~ev.ok
    /\ (ev.op = "unlink" /\ ev.status # 0 /\ ~Contains(ev.stderr, <<"No such file">>))
            => ~ev.ok

\* ---------------------------------------------------------------- queries on their own
\* find_source_connections and the two relay-half finders called on snapshots
\* that hold nodes without a name, links to a node the snapshot does not
\* hold, relays of names that contain one another and nodes described after
\* a relay

\* a sink and a filter that have no node.name
NamelessSink == [SinkNode EXCEPT !.id = 6, !.name = <<>>]

NamelessFilter ==
    [id |-> 7, name |-> <<>>, desc |-> <<"Filter">>, app |-> <<>>, media |-> <<>>,
     class |-> "Audio/Filter", dir |-> "input", pfx |-> "input", chans |-> <<FL, FR>>]

\* a node that is described after the recording relay of SourceNode and has
\* input ports only
MeterNode ==
    [id |-> 8, name |-> <<"Meter">>,
     desc |-> <<"Meter of ", "My", "App", "_to_Recording", " (", "input", "/", "output", ")">>,
     app |-> <<>>, media |-> <<>>, class |-> "Stream/Input/Audio/Internal",
     dir |-> "input", pfx |-> "input", chans |-> <<FL, FR>>]

\* a node named after the local relay of SourceNode whose ports are not there yet
PortlessNode ==
    [id |-> 9, name |-> <<"My", "App", "_to_Local">>, desc |-> <<>>, app |-> <<>>,
     media |-> <<>>, class |-> "Stream/Input/Audio/Internal",
     dir |-> "input", pfx |-> "input", chans |-> <<>>]

\* a second source whose relay names are contained in those of SourceNode
AppNode == [SourceNode EXCEPT !.id = 5, !.name = <<"App2">>, !.app = <<"App">>]

QueryNodes ==
    {<<SourceNode, SinkNode, NamelessSink, NamelessFilter>>,
     <<SourceNode, MeterNode, PortlessNode, SinkNode>>,
     <<PortlessNode, AppNode, SourceNode, NamelessSink>>}

\* the links of the snapshot: to a sink, across channels, to the nameless
\* nodes, to a node that is not in the snapshot, and of another source
QueryLinks ==
    {L \in SUBSET {<<11, 21>>, <<12, 22>>, <<11, 22>>, <<12, 62>>, <<11, 71>>, <<12, 102>>,
                   <<51, 21>>} : Cardinality(L) <= 3}

\* the relays of the snapshot: those of SourceNode, and before them or after
\* them those of AppNode
QueryRelays ==
    LET src == extract_audio_sources(<<SourceNode>>)[1]
        app2 == extract_audio_sources(<<AppNode>>)[1]
        dst == extract_recording_dests(<<RecorderNode>>)[1]
        spawn2(rs, source, os) ==
            spawn_loopback_no_target(
                spawn_loopback_no_target(rs,
                    safe_name(source.application_name) \o <<"_to_Recording">>,
                    source.application_name \o <<" -> ">> \o dst.application_name, os),
                safe_name(source.application_name) \o <<"_to_Local">>,
                source.application_name \o <<" -> ", "Local">>, os)
    IN  {<<>>}
        \cup {spawn2(<<>>, src, [cap_first |-> b, parent |-> 0]) : b \in BOOLEAN}
        \cup {spawn2(spawn2(<<>>, src, [cap_first |-> b, parent |-> 0]), app2,
                      [cap_first |-> b, parent |-> 0]) : b \in BOOLEAN}
        \cup {spawn2(spawn2(<<>>, app2, [cap_first |-> b, parent |-> 0]), src,
                      [cap_first |-> b, parent |-> 0]) : b \in BOOLEAN}

\* the relay names asked for
QueryNames ==
    {safe_name(a) \o <<t>> : a \in {SourceNode.app, AppNode.app},
                              t \in {"_to_Recording", "_to_Local"}}

InitQuery ==
    /\ nodes \in QueryNodes
    /\ links \in QueryLinks
    /\ relays \in QueryRelays
    /\ store = NoFiles
    /\ app = [c \in Ctl |-> AppNew(nodes)]
    /\ pc = [c \in Ctl |-> "idle"]
    /\ loc = [c \in Ctl |-> NoLoc]
    /\ ev = NoEv
    /\ origin = NoFiles
    /\ faults = 0
    /\ clock = 0
    /\ runs = [c \in Ctl |-> 0]
    /\ torn = {}
    /\ uq = NoEv
    /\ halves = TRUE
    /\ reaps = TRUE
    /\ state_dir = FALSE

\* one call of find_source_connections on the snapshot
FindSourceConnections ==
    /\ \E n \in {SourceNode.id, AppNode.id} :
       \E conns \in find_source_connections(n, Objects, links) :
          ev' = [op |-> "connections", node |-> n, objects |-> Objects, links |-> links,
                 result |-> conns]
    /\ UNCHANGED <<nodes, relays, links, store, app, pc, loc, origin, faults, clock, runs,
                   torn, uq, halves, reaps, state_dir>>

\* one call of find_loopback_capture_node or find_loopback_playback_node on
\* the snapshot
FindLoopbackNode ==
    /\ \E name \in QueryNames, half \in {"capture", "playback"} :
          ev' = [op |-> "find", half |-> half, name |-> name, objects |-> Objects,
                 result |-> IF half = "capture"
                            THEN find_loopback_capture_node(Objects, name)
                            ELSE find_loopback_playback_node(Objects, name)]
    /\ UNCHANGED <<nodes, relays, links, store, app, pc, loc, origin, faults, clock, runs,
                   torn, uq, halves, reaps, state_dir>>

SpecQuery == InitQuery /\ [][FindSourceConnections \/ FindLoopbackNode]_vars

\* the output links of node n among the links L
OutLinks(L, n) == {k \in L : NodeOfPort(k[1]) = n}

\* C23: find_source_connections(n) returns one connection per distinct input
\* node among the links whose output node is n; each holds exactly the links
\* from n to its target, together they hold every link out of n and no
\* other, and a target whose name the snapshot does not give is named
\* Unknown(<id>).
C23_Connections ==
    ev.op = "connections" =>
        LET r == ev.result
            out == OutLinks(ev.links, ev.node)
        IN  /\ {r[i].target_node_id : i \in 1..Len(r)} = {NodeOfPort(k[2]) : k \in out}
            /\ Len(r) = Cardinality({NodeOfPort(k[2]) : k \in out})
            /\ \A i \in 1..Len(r) :
                    /\ r[i].source_node_id = ev.node
                    /\ r[i].links = {k \in out : NodeOfPort(k[2]) = r[i].target_node_id}
                    /\ r[i].target_node_name =
                            IF \E j \in 1..Len(ev.objects) :
                                    /\ ev.objects[j].id = r[i].target_node_id
                                    /\ ev.objects[j].name # <<>>
                            THEN (CHOOSE n \in SeqToSet(ev.objects) :
                                        n.id = r[i].target_node_id).name
                            ELSE <<"Unknown(">> \o Dec(r[i].target_node_id) \o <<")">>
            /\ UNION {r[i].links : i \in 1..Len(r)} = out

\* C23 without its last part: the grouping of the links
C23_Grouping ==
    ev.op = "connections" =>
        LET r == ev.result
            out == OutLinks(ev.links, ev.node)
        IN  /\ {r[i].target_node_id : i \in 1..Len(r)} = {NodeOfPort(k[2]) : k \in out}
            /\ Len(r) = Cardinality({NodeOfPort(k[2]) : k \in out})
            /\ \A i \in 1..Len(r) :
                    /\ r[i].source_node_id = ev.node
                    /\ r[i].links = {k \in out : NodeOfPort(k[2]) = r[i].target_node_id}
            /\ UNION {r[i].links : i \in 1..Len(r)} = out

\* the least element of a set of numbers
Least(S) == CHOOSE i \in S : \A j \in S : i <= j

\* the nodes of a snapshot (by position) that match a relay name by
\* description and marker, and by name and a port of the direction
ByDescription(objects, name, marker) ==
    {i \in 1..Len(objects) :
        Contains(objects[i].desc, name) /\ Contains(objects[i].desc, <<marker>>)}

ByNameAndPort(objects, name, direction) ==
    {i \in 1..Len(objects) :
        /\ Contains(objects[i].name, name)
        /\ \E p \in SeqToSet(extract_ports(objects)) :
                p.node_id = objects[i].id /\ p.direction = direction}

\* C30: finding the capture (playback) half of a relay returns the first node
\* whose description contains the relay name and "input" ("output"); when no
\* description matches, the first node whose name holds the relay name and
\* that owns an input (output) port; and none when neither rule matches.
C30_FindHalf ==
    ev.op = "find" =>
        LET marker == IF ev.half = "capture" THEN "input" ELSE "output"
            d == ByDescription(ev.objects, ev.name, marker)
            n == ByNameAndPort(ev.objects, ev.name, marker)
        IN  ev.result = IF d # {} THEN Some(ev.objects[Least(d)].id)
                        ELSE IF n # {} THEN Some(ev.objects[Least(n)].id)
                        ELSE None

\* the playback half was asked for, and the answer is a node matched by its
\* description that stands after the first node matching by name and port
C30_Witness ==
    /\ ev.op = "find"
    /\ ev.half = "playback"
    /\ ByDescription(ev.objects, ev.name, "output") # {}
    /\ ByNameAndPort(ev.objects, ev.name, "output") # {}
    /\ Least(ByNameAndPort(ev.objects, ev.name, "output"))
            # Least(ByDescription(ev.objects, ev.name, "output"))
    /\ ev.result = Some(MeterNode.id)

\* ---------------------------------------------------------------- channels
\* one front-end, on graphs whose nodes have other channels than a stereo
\* pair, with relay crashes and nodes that leave
MonoSource ==
    [SourceNode EXCEPT !.id = 5, !.name = <<"Voice">>, !.app = <<"Voice">>,
                       !.chans = <<"MONO">>]

MonoSink ==
    [SinkNode EXCEPT !.id = 6, !.name = <<"Headset">>, !.desc = <<"Headset">>,
                     !.chans = <<"MONO">>]

MonoRecorder ==
    [RecorderNode EXCEPT !.id = 4, !.name = <<"Rec">>, !.app = <<"Rec">>,
                         !.chans = <<"MONO">>]

SurroundSource == [SourceNode EXCEPT !.chans = <<FL, FR, "FC">>]

SurroundSink ==
    [SinkNode EXCEPT !.id = 7, !.name = <<"Theater">>, !.desc = <<"Theater">>,
                     !.chans = <<FL, FR, "FC", "LFE">>]

\* a stereo source linked to a sink straight and across; a stereo source
\* mixed down into a mono sink; a source linked to a sink on three channels
WireGraphs ==
    {[nodes |-> <<SourceNode, MonoSource, SinkNode, RecorderNode, MonoRecorder>>,
      links |-> SourceToSink \cup {<<11, 22>>}],
     [nodes |-> <<SourceNode, MonoSink, RecorderNode>>,
      links |-> {<<11, 61>>, <<12, 61>>}],
     [nodes |-> <<SurroundSource, SurroundSink, RecorderNode>>,
      links |-> {<<11, 71>>, <<12, 72>>, <<13, 73>>}]}

InitWire ==
    /\ \E g \in WireGraphs :
        /\ nodes = g.nodes
        /\ links = g.links
        /\ app = [c \in Ctl |-> AppNew(g.nodes)]
    /\ relays = <<>>
    /\ store = NoFiles
    /\ pc = [c \in Ctl |-> "idle"]
    /\ loc = [c \in Ctl |-> NoLoc]
    /\ ev = NoEv
    /\ origin = NoFiles
    /\ faults = 0
    /\ clock = 0
    /\ runs = [c \in Ctl |-> 0]
    /\ torn = {}
    /\ uq = NoEv
    /\ halves \in BOOLEAN
    /\ reaps = TRUE
    /\ state_dir = FALSE

NextWire == Split(1) \/ Tick(1) \/ RelayCrash \/ NodeRemoved

SpecWire == InitWire /\ [][NextWire]_vars

\* ---------------------------------------------------------------- recovery
\* one front-end, its health check and relays that crash
InitHeal ==
    /\ nodes \in {<<SourceNode, SinkNode, RecorderNode>>,
                  <<SourceNode, Source2Node, SinkNode, RecorderNode, Recorder2Node>>}
    /\ links = SourceToSink
    /\ app = [c \in Ctl |-> AppNew(nodes)]
    /\ relays = <<>>
    /\ store = NoFiles
    /\ pc = [c \in Ctl |-> "idle"]
    /\ loc = [c \in Ctl |-> NoLoc]
    /\ ev = NoEv
    /\ origin = NoFiles
    /\ faults = 0
    /\ clock = 0
    /\ runs = [c \in Ctl |-> 0]
    /\ torn = {}
    /\ uq = NoEv
    /\ halves \in BOOLEAN
    /\ reaps \in BOOLEAN
    /\ state_dir = FALSE

NextHeal == Split(1) \/ Tick(1) \/ RelayCrash

SpecHeal == InitHeal /\ [][NextHeal]_vars

\* ---------------------------------------------------------------- keys
\* one front-end with every key it handles, Esc in every state, its health
\* check and relays that crash
NextKeys == Key(1) \/ Setup(1) \/ Esc(1) \/ Tick(1) \/ RelayCrash

SpecKeys == Init /\ [][NextKeys]_vars

\* ---------------------------------------------------------------- process ids
\* one front-end and the stop command, relays that crash and process ids
\* that are taken again
NextPid ==
    \/ Split(1)
    \/ Tick(1)
    \/ StopActive(1)
    \/ CliStop
    \/ RelayCrash
    \/ PidReused

SpecPid == InitHeal /\ [][NextPid]_vars

\* ---------------------------------------------------------------- properties
\* the port of a node that carries a channel
ChannelPort(node_id, channel) == node_id * 10 + (IF channel = FL THEN 1 ELSE 2)

\* the links that carry both stereo channels from one node to another
StereoLinks(from, to) == {<<ChannelPort(from, ch), ChannelPort(to, ch)>> : ch \in {FL, FR}}

\* the links of L from node `from` to the nodes `tos`
LinksBetween(L, from, tos) ==
    {k \in L : NodeOfPort(k[1]) = from /\ NodeOfPort(k[2]) \in tos}

\* "<node.name>:<port.name>" of a port of graph G
PortLinkName(G, port_id) ==
    LET p == CHOOSE p \in SeqToSet(extract_ports(G)) : p.port_id = port_id
        n == CHOOSE n \in SeqToSet(G) : n.id = p.node_id
    IN  get_port_link_name(n.name, p.port_name)

\* a setup_split call has just returned Ok, and nothing outside the program has
\* happened so far
SetupDone == ev.op = "setup" /\ ev.err = "" /\ faults = 0

\* C1: when setup(S, R, [S->D1]) succeeds for a source linked to the sink D1 on
\* both channels, S's FL and FR are linked to the capture inputs of both relays,
\* the recording relay's playback to R, the local relay's playback to D1, and the
\* record is persisted.
C1_SetupWiring ==
    (/\ SetupDone
     /\ Len(ev.connections) = 1
     /\ ev.connections[1].target_node_id = SinkNode.id
     /\ StereoLinks(ev.source.node_id, SinkNode.id) \subseteq ev.before)
    => LET state == ev.state[1]
           rec == state.loopback_to_recording_pid
           loc_ == state.loopback_to_local_pid
       IN  /\ StereoLinks(ev.source.node_id, CaptureId(rec)) \subseteq links
           /\ StereoLinks(ev.source.node_id, CaptureId(loc_)) \subseteq links
           /\ StereoLinks(PlaybackId(rec), ev.recording_dest.node_id) \subseteq links
           /\ StereoLinks(PlaybackId(loc_), SinkNode.id) \subseteq links
           /\ load(store, state.name) = Some(state)

\* a split of the linked source to the second recorder instance is up
C1_Witness ==
    /\ SetupDone
    /\ Len(ev.connections) = 1
    /\ ev.connections[1].target_node_id = SinkNode.id
    /\ StereoLinks(ev.source.node_id, SinkNode.id) \subseteq ev.before
    /\ ev.recording_dest.node_id = Recorder2Node.id
    /\ StereoLinks(PlaybackId(ev.state[1].loopback_to_recording_pid), Recorder2Node.id)
            \subseteq links

\* C2: after a successful setup the severed-link list of the record is exactly
\* the set of links from the source to the targets of the original connections
\* that setup removed, every one of them a link before setup.
C2_SeveredExact ==
    SetupDone =>
        LET saved == ev.state[1].original_links IN
        /\ ev.removed \subseteq ev.before
        /\ {<<saved[i].output_port, saved[i].input_port>> : i \in 1..Len(saved)}
             = {<<PortLinkName(Objects, k[1]), PortLinkName(Objects, k[2])>> : k \in ev.removed}

\* C3: teardown of the record setup produced stops both relays, removes the
\* record and leaves the source's links to its original targets as they were
\* before setup.
C3_RoundTrip ==
    (/\ ev.op = "teardown"
     /\ faults = 0
     /\ SplitId(ev.state) \in DOMAIN origin)
    => LET o == origin[SplitId(ev.state)] IN
       /\ relays[ev.state.loopback_to_recording_pid].state # "run"
       /\ relays[ev.state.loopback_to_local_pid].state # "run"
       /\ ~exists(store, ev.state.name)
       /\ LinksBetween(links, o.source, o.targets) = o.before

\* C4: teardown issues every step whatever fails, returns an error exactly when
\* deleting the record fails, and otherwise leaves no record.
C4_TeardownCompletes ==
    ev.op = "teardown" =>
        /\ ev.ok <=> ~ev.delete_failed
        /\ ev.ok => ~exists(store, ev.state.name)
        /\ Len(ev.cmds) = 2 + Len(ev.state.original_links) + 1
        /\ ev.cmds[Len(ev.cmds)] = <<"delete", state_file_path(ev.state.name)>>

\* a teardown in which a kill and a relink failed, and which returned Ok
C4_Witness ==
    /\ ev.op = "teardown"
    /\ ev.kill_failed > 0
    /\ ev.link_failed > 0
    /\ ev.had
    /\ ev.ok
    /\ ~exists(store, ev.state.name)

\* C5: the operations teardown issues are fixed by the record: a kill for each
\* of its two pids, a link request for each pair of its severed-link list, the
\* deletion of its file, and nothing else.
C5_TeardownFromRecord ==
    ev.op = "teardown" =>
        LET saved == ev.state.original_links IN
        ev.cmds = <<<<"kill", ev.state.loopback_to_recording_pid>>,
                    <<"kill", ev.state.loopback_to_local_pid>>>>
                  \o [i \in 1..Len(saved) |->
                        <<"pw-link", saved[i].output_port, saved[i].input_port>>]
                  \o <<<<"delete", state_file_path(ev.state.name)>>>>

\* a teardown whose record lists links to a node that has left the graph
C5_Witness ==
    /\ ev.op = "teardown"
    /\ ev.state.original_links # <<>>
    /\ ev.link_failed = Len(ev.state.original_links)
    /\ Len(ev.cmds) = 5

\* C6: setup_split with no original connection returns NoActiveConnection
\* without having spawned, linked, unlinked or written anything.
C6_EmptyConnections ==
    [][(ev'.op = "setup" /\ ev'.connections = <<>>) =>
            /\ ev'.err = "NoActiveConnection"
            /\ ev'.cmds = <<>>
            /\ ev'.spawned = {}
            /\ relays' = relays
            /\ links' = links
            /\ store' = store]_vars

C6_Witness ==
    /\ ev.op = "setup"
    /\ ev.connections = <<>>
    /\ ev.err = "NoActiveConnection"
    /\ links # {}

\* C7: every write of an existing record by recovery differs from the version
\* persisted before it only in the pid of the relay that was respawned.
C7_WritesOnlyPid ==
    ev.op = "tick" =>
        \A i \in 1..Len(ev.writes) :
            LET w == ev.writes[i] IN
            w.prev # None =>
                w.new = IF w.which = "recording"
                        THEN [w.prev[1] EXCEPT !.loopback_to_recording_pid =
                                                    w.new.loopback_to_recording_pid]
                        ELSE [w.prev[1] EXCEPT !.loopback_to_local_pid =
                                                    w.new.loopback_to_local_pid]

\* C8: once a teardown has deleted a split's record, the store never holds a
\* record of that split again.
C8_TornDownTerminal ==
    \A f \in DOMAIN store :
        LET state == from_json(store[f]) IN
        state # None => SplitId(state[1]) \notin torn

\* C9: a successful setup writes its record under a name no record has at the
\* time of the write, and no two front-ends hold active splits of one name.
C9_NoOverwrite ==
    /\ (ev.op = "setup" /\ ev.err = "") => ~ev.wrote_over
    /\ \A c \in Ctl, d \in Ctl :
        (c # d /\ app[c].active_split # None /\ app[d].active_split # None)
            => app[c].active_split[1].name # app[d].active_split[1].name

\* the commands of a teardown of the record state
TeardownCmds(state) ==
    <<<<"kill", state.loopback_to_recording_pid>>, <<"kill", state.loopback_to_local_pid>>>>
    \o [i \in 1..Len(state.original_links) |->
            <<"pw-link", state.original_links[i].output_port,
              state.original_links[i].input_port>>]
    \o <<<<"delete", state_file_path(state.name)>>>>

\* C15: stop_all_splits calls teardown for every record list_all returned,
\* also after a teardown that failed; it returns exactly the names of the
\* records whose teardown succeeded, and a record of the listing is still in
\* the store only if its name is not among them.
C15_StopAll ==
    (ev.op = "stop_all" /\ ev.err = "") =>
        /\ Len(ev.calls) = Len(ev.listed)
        /\ \A i \in 1..Len(ev.listed) :
            /\ ev.calls[i].state = ev.listed[i]
            /\ ev.calls[i].cmds = TeardownCmds(ev.listed[i])
            /\ load(store, ev.listed[i].name) = Some(ev.listed[i])
                    => ~\E k \in 1..Len(ev.stopped) : ev.stopped[k] = ev.listed[i].name
        /\ ev.stopped = Flatten([i \in 1..Len(ev.calls) |->
                                    IF ev.calls[i].ok THEN <<ev.calls[i].state.name>> ELSE <<>>])

\* of two records the first could not be deleted, the second was torn down
C15_Witness ==
    /\ ev.op = "stop_all"
    /\ Len(ev.listed) = 2
    /\ ~ev.calls[1].ok
    /\ ev.calls[2].ok
    /\ ev.stopped = <<ev.listed[2].name>>
    /\ load(store, ev.listed[1].name) = Some(ev.listed[1])
    /\ load(store, ev.listed[2].name) = None

\* C16 as stated: stop_split(name) fails with StateFileError, sends no signal,
\* creates no link and changes no record when no record of that name can be
\* loaded; when the record loads it performs the teardown of that record.
C16_StateFileError ==
    [][/\ ev'.op = "stop" =>
            /\ ev'.err = "StateFileError"
            /\ ev'.cmds = <<>>
            /\ relays' = relays /\ links' = links /\ store' = store
       /\ (ev'.op = "teardown" /\ ev'.by = Cli) =>
            /\ load(store, ev'.state.name) = Some(ev'.state)
            /\ ev'.cmds = TeardownCmds(ev'.state)]_vars

\* C16, amended: the error is StateFileError when the file of that name cannot
\* be read and JsonError when it is read and is not a record.
C16_StopByName ==
    [][/\ ev'.op = "stop" =>
            /\ load(store, ev'.name) = None
            /\ ev'.err = IF read_to_string(store, state_file_path(ev'.name)) = None
                         THEN "StateFileError" ELSE "JsonError"
            /\ ev'.cmds = <<>>
            /\ relays' = relays /\ links' = links /\ store' = store
       /\ (ev'.op = "teardown" /\ ev'.by = Cli) =>
            /\ load(store, ev'.state.name) = Some(ev'.state)
            /\ ev'.cmds = TeardownCmds(ev'.state)]_vars

\* a stop of a name whose file holds a part of a record, while a split is up
C16_Witness ==
    /\ ev.op = "stop"
    /\ ev.err = "JsonError"
    /\ exists(store, ev.name)
    /\ \E pid \in 1..Len(relays) : relays[pid].state = "run"
    /\ \E f \in DOMAIN store : from_json(store[f]) # None

\* a node with this id is in the graph
NodePresent(id) == \E i \in 1..Len(nodes) : nodes[i].id = id

\* the links that end on the capture half or start at the playback half of a relay
RelayLinks(L, pid) ==
    {k \in L : NodeOfPort(k[2]) = CaptureId(pid) \/ NodeOfPort(k[1]) = PlaybackId(pid)}

\* C17: after a successful health check that found the recording relay not
\* running, a replacement is running, the persisted record holds its pid, the
\* source's outputs are linked to its capture inputs and its playback outputs
\* to the inputs of the recording destination.
C17_RecoveryRewires ==
    (/\ ev.op = "tick"
     /\ ~ev.running[1]
     /\ ev.errs = <<"", "">>
     /\ NodePresent(ev.after.source_node_id))
    => LET new == ev.after.loopback_to_recording_pid IN
       /\ new # ev.before.loopback_to_recording_pid
       /\ relays[new].state = "run"
       /\ load(store, ev.after.name) # None
       /\ load(store, ev.after.name)[1].loopback_to_recording_pid = new
       /\ StereoLinks(PlaybackId(new), ev.after.recording_dest_node_id) \subseteq links
       /\ StereoLinks(ev.after.source_node_id, CaptureId(new)) \subseteq links

\* C18: a health check right after a successful recovery, or with both relay
\* pids running, finds both pids live, spawns nothing, links nothing and does
\* not write the record.
C18_HealthyNoop ==
    [][(/\ ev'.op = "tick"
        /\ \/ ev'.running = <<TRUE, TRUE>>
           \/ /\ ev.op = "tick"
              /\ ev.by = ev'.by
              /\ ev.errs = <<"", "">>)
       => /\ ev'.running = <<TRUE, TRUE>>
          /\ ev'.cmds = <<>>
          /\ ev'.writes = <<>>
          /\ ev'.after = ev'.before
          /\ relays' = relays
          /\ links' = links
          /\ store' = store]_vars

\* a health check with nothing to do on a split whose recording relay is a
\* replacement
C18_Witness ==
    /\ ev.op = "tick"
    /\ ev.running = <<TRUE, TRUE>>
    /\ ev.cmds = <<>>
    /\ ev.before.loopback_to_recording_pid > ev.before.loopback_to_local_pid
    /\ relays[ev.before.loopback_to_recording_pid].state = "run"
    /\ load(store, ev.before.name) = Some(ev.before)

\* C19: a health check that finds the local relay not running spawns a
\* replacement and persists its pid but creates no link: the replacement has
\* no link from the source and none to the original target.
C19_LocalNotRewired ==
    (/\ ev.op = "tick"
     /\ ~ev.running[2]
     /\ ev.errs[2] = "")
    => LET new == ev.after.loopback_to_local_pid IN
       /\ new # ev.before.loopback_to_local_pid
       /\ relays[new].state = "run"
       /\ load(store, ev.after.name) = Some(ev.after)
       /\ \A i \in 1..Len(ev.local_cmds) : ev.local_cmds[i][1] # "pw-link"
       /\ RelayLinks(links, new) = {}

\* the local relay was replaced while the source, the original target and the
\* wired recording relay are there
C19_Witness ==
    /\ ev.op = "tick"
    /\ ~ev.running[2]
    /\ ev.running[1]
    /\ ev.errs[2] = ""
    /\ NodePresent(ev.after.source_node_id)
    /\ find_node_by_name(Objects, ev.after.original_output_node_name) = Some(SinkNode.id)
    /\ StereoLinks(ev.after.source_node_id, CaptureId(ev.after.loopback_to_recording_pid))
            \subseteq links

\* the index of the first connection whose target is an Audio/Sink node, 1 when
\* there is none
FirstToSink(connections) ==
    LET hits == {i \in 1..Len(connections) :
                    \E k \in 1..Len(nodes) :
                        /\ nodes[k].id = connections[i].target_node_id
                        /\ nodes[k].class = "Audio/Sink"}
    IN  IF hits = {} THEN 1 ELSE CHOOSE i \in hits : \A j \in hits : i <= j

\* C20: the primary connection of a setup is the first original connection
\* whose target is a sink, or the first one when none is; the local relay's
\* playback is linked to the target of that connection, and the target's name
\* is the record's original target.
C20_PrimaryConnection ==
    SetupDone =>
        LET primary == ev.connections[FirstToSink(ev.connections)]
            state == ev.state[1]
        IN  /\ ev.primary_connection = Some(primary)
            /\ state.original_output_node_name = primary.target_node_name
            /\ StereoLinks(PlaybackId(state.loopback_to_local_pid), primary.target_node_id)
                    \subseteq links

\* the playback half of a running relay that setup_split or a restart spawned
\* as a recording relay
RecordingPlayback(rs, node_id) ==
    \E pid \in 1..Len(rs) :
        /\ rs[pid].state = "run"
        /\ PlaybackId(pid) = node_id
        /\ rs[pid].name # <<>>
        /\ rs[pid].name[Len(rs[pid].name)] = "_to_Recording"

\* C21: every link that a step of setup or of recovery creates from the
\* playback half of a recording relay ends on an input port of the node whose
\* id is the destination chosen for that setup or stored in that record, also
\* when another node carries the destination's name.
C21_RecordingById ==
    [][\A k \in links' \ links :
            RecordingPlayback(relays', NodeOfPort(k[1])) =>
                \/ \E c \in Ctl :
                        /\ pc[c] # "idle"
                        /\ NodeOfPort(k[2]) = loc[c].recording_dest[1].node_id
                \/ /\ ev'.op = "tick"
                   /\ NodeOfPort(k[2]) = ev'.before.recording_dest_node_id]_vars

\* a recovery has wired the replacement of the recording relay to the second
\* of two recorder instances of one name
C21_Witness ==
    /\ ev.op = "tick"
    /\ ~ev.running[1]
    /\ ev.errs[1] = ""
    /\ ev.after.recording_dest_node_id = Recorder2Node.id
    /\ NodePresent(RecorderNode.id)
    /\ NodePresent(Recorder2Node.id)
    /\ StereoLinks(PlaybackId(ev.after.loopback_to_recording_pid), Recorder2Node.id)
            \subseteq links
    /\ LinksBetween(links, PlaybackId(ev.after.loopback_to_recording_pid), {RecorderNode.id}) = {}

\* the number of commands of one kind in a list of commands
Count(cmds, kind) == Cardinality({i \in 1..Len(cmds) : cmds[i][1] = kind})

\* the steps of setup_split in the order of the code, from the call on
SetupSteps ==
    <<"idle", "spawn_recording", "spawn_local", "disconnect", "connect_recording_capture",
      "connect_local_capture", "connect_recording_playback", "connect_local_playback", "save">>

StepIndex(at) == CHOOSE i \in 1..Len(SetupSteps) : SetupSteps[i] = at

\* C22: when a step of setup fails, setup returns that error at once: the
\* steps after it issue nothing, no relay is terminated, no link is removed
\* or put back, and the links severed stay severed.
C22_NoRollback ==
    [][(ev'.op = "setup" /\ ev'.err # "") =>
            LET n == StepIndex(ev'.at) IN
            /\ relays' = relays
            /\ \A pid \in ev'.spawned : pid \in 1..Len(relays')
            /\ links \subseteq links'
            /\ links' \cap ev'.removed = {}
            /\ Count(ev'.cmds, "kill") = 0
            /\ Count(ev'.cmds, "pw-loopback") = IF n = 1 THEN 0 ELSE IF n = 2 THEN 1 ELSE 2
            /\ Count(ev'.cmds, "pw-dump") = IF n <= 3 THEN IF ev'.cmds = <<>> THEN 0 ELSE 1
                                            ELSE IF n = 9 THEN 6 ELSE n - 2
            /\ Count(ev'.cmds, "pw-link -d") > 0 => n >= 5
            /\ Count(ev'.cmds, "write") = IF n = 9 THEN 1 ELSE 0
            /\ \A i, j \in 1..Len(ev'.cmds) :
                    (ev'.cmds[i][1] = "pw-link" /\ ev'.cmds[j][1] = "pw-link -d") => j < i]_vars

\* a setup that failed at the wiring of the recording relay's playback: both
\* relays run, the source is linked to both captures, and the links it had to
\* its sink are gone
C22_Witness ==
    /\ ev.op = "setup"
    /\ ev.err = "LinkCreationFailed"
    /\ ev.at = "connect_recording_playback"
    /\ ev.removed # {}
    /\ links \cap ev.removed = {}
    /\ Cardinality(ev.spawned) = 2
    /\ \A pid \in ev.spawned :
            /\ relays[pid].state = "run"
            /\ StereoLinks(ev.source.node_id, CaptureId(pid)) \subseteq links
    /\ store = NoFiles

\* C24: setup writes the record in its last step only, after both relays
\* were spawned and every wiring call returned Ok: the store holds a record
\* of the split exactly when setup returned Ok, and none when it returned an
\* error.
C24_RecordLast ==
    [][/\ ev'.op = "setup" =>
            /\ ev'.err = "" <=> load(store', ev'.name) # None
            /\ ev'.err = "" =>
                    /\ load(store', ev'.name) = ev'.state
                    /\ ev'.at = "save"
                    /\ ev'.cmds[Len(ev'.cmds)] = <<"write", state_file_path(ev'.name)>>
                    /\ Count(ev'.cmds, "write") = 1
                    /\ Count(ev'.cmds, "pw-loopback") = 2
                    /\ Count(ev'.cmds, "pw-dump") = 6
            /\ ev'.err # "" => store' = store /\ ~exists(store', ev'.name)
       /\ \A c \in Ctl :
            (pc[c] # "idle" /\ pc'[c] # pc[c] /\ store' # store)
                => pc[c] = "save" /\ ev'.op = "setup" /\ ev'.err = ""]_vars

\* a setup whose wiring was complete and whose write failed: no record
C24_Witness ==
    /\ ev.op = "setup"
    /\ ev.at = "save"
    /\ ev.err = "StateFileError"
    /\ ~exists(store, ev.name)
    /\ \A pid \in ev.spawned :
            /\ relays[pid].state = "run"
            /\ StereoLinks(ev.source.node_id, CaptureId(pid)) \subseteq links
    /\ \E pid \in ev.spawned :
            StereoLinks(PlaybackId(pid), ev.recording_dest.node_id) \subseteq links

\* C28: the connections that setup severs are connections of the source in
\* the graph as it is when the severing step takes its snapshot, not
\* connections observed when the source was selected.
C28_FreshConnections ==
    [][\A c \in Ctl :
            (pc[c] = "disconnect" /\ pc'[c] # pc[c]) =>
                \A i \in 1..Len(loc[c].original_connections) :
                    LET conn == loc[c].original_connections[i] IN
                    conn.links # {} =>
                        \E now \in find_source_connections(loc[c].source[1].node_id,
                                                           Objects, links) :
                            \E j \in 1..Len(now) : now[j] = conn]_vars

\* C29: in every teardown both termination signals are sent before any link
\* is requested, and the record is deleted only after a link was requested
\* for every pair of the severed-link list.
C29_TeardownOrder ==
    ev.op = "teardown" =>
        LET cmds == ev.cmds
            saved == ev.state.original_links
            At(kind) == {i \in 1..Len(cmds) : cmds[i][1] = kind}
        IN  /\ {cmds[i][2] : i \in At("kill")}
                    = {ev.state.loopback_to_recording_pid, ev.state.loopback_to_local_pid}
            /\ \A i \in At("kill"), j \in At("pw-link") \cup At("delete") : i < j
            /\ \A i \in At("pw-link"), j \in At("delete") : i < j
            /\ Cardinality(At("delete")) = 1
            /\ \A k \in 1..Len(saved) :
                    \E i \in At("pw-link") :
                        cmds[i] = <<"pw-link", saved[k].output_port, saved[k].input_port>>

\* a teardown of a running split with two severed links, given by name on
\* the command line
C29_Witness ==
    /\ ev.op = "teardown"
    /\ ev.by = Cli
    /\ Len(ev.state.original_links) = 2
    /\ ev.kill_failed = 0
    /\ ev.link_failed = 0
    /\ ev.ok
    /\ Len(ev.cmds) = 5

\* the channel label of a port of graph G
ChannelOf(G, port_id) ==
    (CHOOSE p \in SeqToSet(extract_ports(G)) : p.port_id = port_id).channel

\* node node_id has no FL or FR port of direction dir in graph G
NoStereo(G, node_id, dir) ==
    ~\E p \in SeqToSet(extract_ports(G)) :
        p.node_id = node_id /\ p.direction = dir /\ p.channel \in {FL, FR}

\* C25: after the severing step of setup no link is left from the source to
\* the target of any original connection: every link of every original
\* connection is removed, whatever channels it joins.
C25_AllSevered ==
    [][\A c \in Ctl :
            (pc[c] = "disconnect" /\ pc'[c] # pc[c]) =>
                \A i \in 1..Len(loc[c].original_connections) :
                    LET conn == loc[c].original_connections[i] IN
                    /\ conn.links \cap links' = {}
                    /\ LinksBetween(links', loc[c].source[1].node_id,
                                    {conn.target_node_id}) = {}]_vars

\* the severing step leaves no link of an original connection that joins two
\* FL ports or two FR ports
C25_StereoSevered ==
    [][\A c \in Ctl :
            (pc[c] = "disconnect" /\ pc'[c] # pc[c]) =>
                \A i \in 1..Len(loc[c].original_connections) :
                    \A k \in loc[c].original_connections[i].links \cap links' :
                        ~(/\ ChannelOf(Objects, k[1]) = ChannelOf(Objects, k[2])
                          /\ ChannelOf(Objects, k[1]) \in {FL, FR})]_vars

\* C26: every link that setup or recovery creates joins an output port and
\* an input port of the same stereo label, FL with FL or FR with FR.
C26_SameChannel ==
    [][\A k \in links' \ links :
            LET G == ObjectsOf(nodes', relays') IN
            /\ ChannelOf(G, k[1]) = ChannelOf(G, k[2])
            /\ ChannelOf(G, k[1]) \in {FL, FR}]_vars

\* a split of a three-channel source linked to a four-channel sink is up,
\* and the recording relay was replaced and wired again
C26_Witness ==
    /\ ev.op = "tick"
    /\ ~ev.running[1]
    /\ ev.errs[1] = ""
    /\ nodes[1] = SurroundSource
    /\ StereoLinks(PlaybackId(ev.after.loopback_to_recording_pid),
                   ev.after.recording_dest_node_id) \subseteq links
    /\ StereoLinks(PlaybackId(ev.after.loopback_to_local_pid), SurroundSink.id) \subseteq links
    /\ StereoLinks(SurroundSource.id, CaptureId(ev.after.loopback_to_local_pid)) \subseteq links
    /\ {k \in links : k[1] = 13} = {<<13, 73>>}

C31_Recovers ==
    (/\ ev.op = "tick"
     /\ ev.running = <<TRUE, TRUE>>
     /\ app[ev.by].active_split = Some(ev.after)
     /\ relays[ev.after.loopback_to_recording_pid].state = "run"
     /\ relays[ev.after.loopback_to_local_pid].state = "run"
     /\ NodePresent(ev.after.source_node_id)
     /\ NodePresent(ev.after.recording_dest_node_id))
    => LET pid == ev.after.loopback_to_recording_pid IN
       /\ StereoLinks(ev.after.source_node_id, CaptureId(pid)) \subseteq links
       /\ StereoLinks(PlaybackId(pid), ev.after.recording_dest_node_id) \subseteq links

\* C32: quitting the front-end while a split is Active performs no teardown:
\* the relays that run keep running, no link changes, and the store with the
\* record of the split is left as it is.
C32_QuitKeeps ==
    [][(ev'.op = "quit" /\ ev'.was = "Active" /\ ev'.state # None) =>
            LET state == ev'.state[1] IN
            /\ links' = links
            /\ store' = store
            /\ Len(relays') = Len(relays)
            /\ \A pid \in 1..Len(relays) :
                    relays[pid].state = "run" => relays'[pid] = [relays[pid] EXCEPT !.parent = 0]
            /\ app[ev'.by].active_split = ev'.state]_vars

\* the front-end has quit in Active: both relays of its split run, the wiring
\* of the split is in place and the record is in the store
C32_Witness ==
    /\ ev.op = "quit"
    /\ ev.was = "Active"
    /\ ev.state # None
    /\ app[ev.by].state = "Exited"
    /\ LET state == ev.state[1] IN
       /\ relays[state.loopback_to_recording_pid].state = "run"
       /\ relays[state.loopback_to_local_pid].state = "run"
       /\ load(store, state.name) = Some(state)
       /\ StereoLinks(state.source_node_id, CaptureId(state.loopback_to_recording_pid))
            \subseteq links

\* after the quit, a stop command has torn the split down from its record
C32_StoppedLater ==
    /\ ev.op = "teardown"
    /\ ev.by = Cli
    /\ ev.ok
    /\ ev.had
    /\ app[1].state = "Exited"
    /\ load(store, ev.state.name) = None
    /\ \A pid \in {ev.state.loopback_to_recording_pid, ev.state.loopback_to_local_pid} :
            relays[pid].state # "run"

\* C33: Esc pressed in the Error state takes the front-end out of Error, back
\* to one of the selection states.
C33_EscLeavesError ==
    [][(ev'.op = "esc" /\ ev'.was = "Error") =>
            app'[ev'.by].state \in {"SelectSource", "SelectDestination", "Confirm"}]_vars

\* C34: a front-end is in Active exactly when it holds an active split; it
\* leaves Active only by a teardown of its own that succeeded, to Done and
\* with no split held; Esc and a failed teardown leave it as it was, in Active
\* and holding the split; a health check runs only in Active. (A front-end
\* whose process has ended has no state.)
C34_ActiveHoldsSplit ==
    [][\A c \in Ctl :
        /\ (app[c].state = "Active") <=> (app[c].active_split # None)
        /\ (app'[c].state = "Active") <=> (app'[c].active_split # None)
        /\ (app[c].state = "Active" /\ app'[c].state \notin {"Active", "Exited"}) =>
                /\ ev'.op = "teardown"
                /\ ev'.by = c
                /\ ev'.ok
                /\ ev'.state = app[c].active_split[1]
                /\ app'[c].state = "Done"
                /\ app'[c].active_split = None
        /\ (ev'.op = "teardown" /\ ev'.by = c /\ ~ev'.ok) =>
                app'[c] = app[c] /\ app[c].state = "Active"
        /\ (ev'.op = "esc" /\ ev'.by = c /\ ev'.was = "Active") =>
                app'[c] = app[c] /\ app[c].state = "Active"
        /\ (ev'.op = "tick" /\ ev'.by = c) =>
                app[c].state = "Active" /\ app'[c].state = "Active"]_vars

\* a teardown by the front-end has failed: it is in Active and holds the split
C34_Witness ==
    /\ ev.op = "teardown"
    /\ ev.by = 1
    /\ ~ev.ok
    /\ app[1].state = "Active"
    /\ app[1].active_split = Some(ev.state)

\* C35: after every health check, failed or not, the relay pids of the record
\* the front-end holds are those of the persisted record, and every process
\* the health check spawned that still runs has its pid in the persisted
\* record.
C35_PidsPersisted ==
    [][ev'.op = "tick" =>
            LET held == app'[ev'.by].active_split[1]
                persisted == load(store', held.name)
            IN  /\ persisted # None
                /\ persisted[1].loopback_to_recording_pid = held.loopback_to_recording_pid
                /\ persisted[1].loopback_to_local_pid = held.loopback_to_local_pid
                /\ \A pid \in (Len(relays) + 1)..Len(relays') :
                        relays'[pid].state = "run" =>
                            pid \in {persisted[1].loopback_to_recording_pid,
                                     persisted[1].loopback_to_local_pid}]_vars

\* the relay processes whose capture or playback node a link of K ends on
RelaysLinked(K) ==
    {pid \in 1..MaxSpawn :
        \E k \in K : NodeOfPort(k[2]) = CaptureId(pid) \/ NodeOfPort(k[1]) = PlaybackId(pid)}

\* C36: two splits that are active together have distinct relay names, and
\* every link a setup creates to a capture half or from a playback half is a
\* link of a relay that this setup spawned, never of a relay of another
\* split.
C36_OwnRelays ==
    [][/\ \A c \in Ctl, d \in Ctl :
            (c # d /\ app'[c].active_split # None /\ app'[d].active_split # None) =>
                {app'[c].active_split[1].recording_loopback_name,
                 app'[c].active_split[1].local_loopback_name}
                \cap {app'[d].active_split[1].recording_loopback_name,
                      app'[d].active_split[1].local_loopback_name} = {}
       /\ \A c \in Ctl :
            (pc[c] # "idle" /\ pc'[c] # pc[c]) =>
                RelaysLinked(links' \ links)
                    \subseteq {loc[c].loopback_to_recording, loc[c].loopback_to_local}]_vars

\* the pids a list of commands sends a termination signal to
Killed(cmds) == {cmds[i][2] : i \in {j \in 1..Len(cmds) : cmds[j][1] = "kill"}}

\* C37: a teardown sends a termination signal only to a process that is a
\* relay of the split, and a health check reports a relay as running only if
\* the relay process runs: not when it has exited, whoever has its pid now.
C37_OnlyRelays ==
    [][/\ ev'.op = "teardown" =>
            \A pid \in Killed(ev'.cmds) :
                (pid \in 1..Len(relays) /\ relays[pid].state # "gone") =>
                    /\ relays[pid].state \in {"run", "zombie"}
                    /\ relays[pid].name \in {ev'.state.recording_loopback_name,
                                             ev'.state.local_loopback_name, <<>>}
       /\ ev'.op = "tick" =>
            /\ ev'.running[1] => relays[ev'.before.loopback_to_recording_pid].state = "run"
            /\ ev'.running[2] => relays[ev'.before.loopback_to_local_pid].state = "run"]_vars

\* C38: the wiring of the recording relay's playback to the destination
\* succeeds whenever the snapshot holds the playback half of the relay with
\* FL / FR output ports and the destination with FL / FR input ports, in
\* whichever order the two halves of the relay are listed.
C38_AnyOrder ==
    [][\A c \in Ctl :
            LET pid == loc[c].loopback_to_recording
                dest == loc[c].recording_dest[1].node_id
            IN  (/\ pc[c] = "connect_recording_playback"
                 /\ pc'[c] # pc[c]
                 /\ relays[pid].state = "run"
                 /\ ~NoStereo(Objects, PlaybackId(pid), "output")
                 /\ ~NoStereo(Objects, dest, "input"))
                => /\ pc'[c] = "connect_local_playback"
                   /\ StereoLinks(PlaybackId(pid), dest) \subseteq links']_vars

\* C39: every link setup creates from the playback half of the local relay
\* ends on an input port of the node that is the target of the primary
\* original connection, the node with that id, also when another node has
\* the name of that target.
C39_PrimaryTarget ==
    [][\A c \in Ctl :
            (pc[c] = "connect_local_playback" /\ pc'[c] # pc[c]) =>
                \A k \in links' \ links :
                    NodeOfPort(k[1]) = PlaybackId(loc[c].loopback_to_local) =>
                        NodeOfPort(k[2]) = loc[c].primary_connection[1].target_node_id]_vars

\* C40: in every state of the front-end the selected source index is below
\* the number of listed sources when that list is not empty, and the selected
\* destination index below the number of listed destinations when that list
\* is not empty.
C40_IndexInRange ==
    \A c \in Ctl :
        /\ app[c].selected_source_idx >= 0
        /\ app[c].selected_dest_idx >= 0
        /\ app[c].sources # <<>> => app[c].selected_source_idx < Len(app[c].sources)
        /\ app[c].destinations # <<>> =>
                app[c].selected_dest_idx < Len(app[c].destinations)

\* the second source of the list was selected, it left the graph, and a
\* refresh has shortened the list to one source and moved the index to it
C40_Witness ==
    /\ app[1].state = "SelectDestination"
    /\ app[1].selected_source # None
    /\ app[1].selected_source[1].node_id = Source2Node.id
    /\ ~NodePresent(Source2Node.id)
    /\ Len(app[1].sources) = 1
    /\ app[1].selected_source_idx = 0

====
